---- MODULE Spec2Model ----
(***************************************************************************)
(* A model of zstl::pmr (include/ZSTL/memory_resource.hpp): the            *)
(* memory_resource interface, NewDeleteResource (the System Provider),     *)
(* monotonic_buffer_resource (the Arena Provider) over a NewDeleteResource *)
(* upstream, and polymorphic_allocator (the Allocator Handle); and of      *)
(* zstl::vector (include/ZSTL/vector.hpp) as the handle's consumer.        *)
(* Addresses are natural numbers, 0 is nullptr.                            *)
(***************************************************************************)
EXTENDS Integers, Sequences, FiniteSets, TLC

(***************************************************************************)
(* Bounds of the model.                                                    *)
(***************************************************************************)
\* number of public calls made on one provider
MaxOps == 3
\* largest byte count a caller requests
MaxBytes == 2
\* alignments requested are 1, 2 and 2^MaxAlignLog
MaxAlignLog == 4
\* the arena is constructed with initial_size 1 or MaxInitSize
MaxInitSize == 2
\* number of pointer-sized slots of the platform heap
HeapSlots == 10
\* public calls made on a provider of any variant behind the interface
MaxIfaceOps == 2
\* provider instances a program creates
MaxInstances == 3
\* allocator handles a program creates
MaxHandles == 2
\* translation units that include memory_resource.hpp
MaxTUs == 2
\* width of std::size_t in bits
SizeBits == 5
\* operations made on one vector
MaxVecOps == 5
\* largest element count asked of a vector
MaxCount == 8
\* values appended to a vector whose contents are followed
MaxAppends == 9
\* operations on the vector objects in one run
MaxVectorOps == 4
\* the largest count passed to a vector's constructor, reserve or resize
MaxElems == 2
\* low bits of std::uintptr_t that hold a tagged_ptr's address (59 in the source)
TAG_SHIFT == 3
\* high bits of std::uintptr_t that hold a tagged_ptr's tag (5 in the source)
TagBits == 2

(***************************************************************************)
(* Program constants (LP64).                                               *)
(***************************************************************************)
\* sizeof(void *), read by NewDeleteResource::do_allocate
sizeof_voidp == 8
\* alignof(std::max_align_t): what malloc guarantees
alignof_max_align_t == 16
\* struct block { void *ptr; std::size_t size; block *next; }
sizeof_block == 24
alignof_block == 8

nullptr == 0

RECURSIVE Pow2(_)
Pow2(k) == IF k = 0 THEN 1 ELSE 2 * Pow2(k - 1)

Aligns == {Pow2(k) : k \in {0, 1, MaxAlignLog}}
Sizes == 0..MaxBytes
Builds == {"aligned_malloc", "posix_memalign", "memalign"}

\* the platform heap is [sizeof_voidp, HeapEnd); allocations start on
\* pointer-sized slots
HeapEnd == sizeof_voidp * (HeapSlots + 1)
HeapAddrs == {a \in 1..(HeapEnd - 1) : a % sizeof_voidp = 0}

Max(a, b) == IF a >= b THEN a ELSE b

VARIABLES
    build,        \* which #if branch NewDeleteResource was compiled with
    heap,         \* live allocations of the platform allocator
    block_size,   \* monotonic_buffer_resource::block_size
    current,      \* monotonic_buffer_resource::current, with the header it points to
    current_pos,  \* monotonic_buffer_resource::current_pos
    block_list,   \* the chain of blocks, head first: <<[b, ptr, size]>>
    status,       \* "alive", "destroyed", or "crashed" (the process faulted)
    last,         \* the last public call and what it returned
    up_calls,     \* the upstream calls the last public call made, in order
                  \* (a user-defined provider: the calls that reached its strategy)
    handed,       \* allocations handed to the caller and still valid, in order
    init_size,    \* the initial_size the arena was constructed with
    fresh_run,    \* every call since construction was an allocate, bytes > 0
    bad_free,     \* the platform was asked to free what it does not hold
    nops,         \* public calls made so far
    variant,      \* the concrete provider the calls are made on
    instances,    \* the provider objects of the program; the index is the address
    ndr,          \* static NewDeleteResource *ndr, one per translation unit
    handle_list,  \* the polymorphic_allocator objects of the program
    slots,        \* the objects' storage obtained through a handle
    h_log,        \* what the last handle operation did, in order
    h_last,       \* the last handle operation and how it ended
    v_ptr,        \* vector::ptr
    nAlloc,       \* vector::nAlloc
    nStored,      \* vector::nStored
    v_log,        \* what the last vector operation asked of its handle, in order
    v_last,       \* the last vector operation
    v_mem,        \* the elements constructed in the vector's buffers, by address
    v_pushed,     \* the values appended to the vector, in order
    v_reqs,       \* every allocate_object and deallocate_object request of the vector
    number_of_types, \* sizeof...(Ts) of the tagged_ptr<Ts...> the program uses
    tagged,       \* the tagged_ptr objects of the program
    tp_last,      \* the last tagged_ptr operation and what it returned
    vectors,      \* the vector objects of the program, by name
    buffers,      \* every buffer a vector obtained; the index is the address
    vo_last       \* the last operation on the vector objects

\* providers and handles as objects with an identity
eq_vars == <<instances, ndr, handle_list>>

\* the typed operations of a handle
handle_vars == <<slots, h_log, h_last>>

\* vector's members and what it asked of its handle
content_vars == <<v_mem, v_pushed, v_reqs>>
\* the vector objects and their buffers
vectors_vars == <<vectors, buffers, vo_last>>

vec_vars == <<v_ptr, nAlloc, nStored, v_log, v_last, content_vars, vectors_vars>>

\* tagged_ptr objects
tagged_vars == <<number_of_types, tagged, tp_last>>

\* the variables of the other components, which a provider leaves alone
other_vars == <<eq_vars, handle_vars, vec_vars, tagged_vars>>

TUs == 1..MaxTUs

EqIdle ==
    /\ instances = <<>>
    /\ ndr = [t \in TUs |-> nullptr]
    /\ handle_list = <<>>

HandleOp(op, U, n, p, ret, threw) ==
    [op |-> op, U |-> U, n |-> n, p |-> p, ret |-> ret, threw |-> threw]

HandleIdle ==
    /\ slots = {}
    /\ h_log = <<>>
    /\ h_last = HandleOp("construct_handle", "none", 0, nullptr, nullptr, "none")

\* the vector objects of the program
VecNames == {"x", "y"}

\* a slot that holds no element
raw == "raw"

\* a vector object: its members, and whether it is constructed
VectorObject(state, alloc, ptr_, nAlloc_, nStored_) ==
    [state |-> state, alloc |-> alloc, ptr |-> ptr_, nAlloc |-> nAlloc_,
     nStored |-> nStored_]

\* storage for a vector that is not constructed yet
NoVector == VectorObject("none", "new_delete_resource", nullptr, 0, 0)

\* the last operation on the vectors: the size before it, and what it did
\* that the lifetime rules of the element type forbid
VectorOp(op, v, count, value, size, misuse) ==
    [op |-> op, v |-> v, count |-> count, value |-> value, size |-> size,
     misuse |-> misuse]

\* no vector is constructed
VectorsIdle ==
    /\ vectors = [v \in VecNames |-> NoVector]
    /\ buffers = <<>>
    /\ vo_last = VectorOp("none", "x", 0, raw, 0, {})

VecOp(op, arg, cap, size) == [op |-> op, arg |-> arg, cap |-> cap, size |-> size]

\* vector(): ptr { nullptr }, nAlloc { 0uz }, nStored { 0uz }
VecIdle ==
    /\ v_ptr = nullptr
    /\ nAlloc = 0
    /\ nStored = 0
    /\ v_log = <<>>
    /\ v_last = VecOp("vector", 0, 0, 0)
    /\ v_mem = {}
    /\ v_pushed = <<>>
    /\ v_reqs = <<>>
    /\ VectorsIdle

\* no tagged_ptr is used
TaggedIdle ==
    /\ number_of_types = 1
    /\ tagged = <<>>
    /\ tp_last = <<>>

\* the other components before anything was done with them
OthersIdle == EqIdle /\ HandleIdle /\ VecIdle /\ TaggedIdle

provider_vars ==
    <<build, heap, block_size, current, current_pos, block_list, status,
      last, up_calls, handed, init_size, fresh_run, bad_free, nops, variant>>

vars == <<provider_vars, other_vars>>

arena_vars == <<block_size, current, current_pos, block_list>>

(***************************************************************************)
(* The platform allocator (malloc, memalign, posix_memalign,               *)
(* _aligned_malloc): any free, suitably aligned place, or failure.         *)
(***************************************************************************)
Overlaps(a, n, h) == a < h.addr + h.size /\ h.addr < a + n

FreePlaces(size, alignment) ==
    {a \in HeapAddrs :
        /\ a % alignment = 0
        /\ a + size <= HeapEnd
        /\ \A h \in heap : ~Overlaps(a, size, h)}

\* the allocator returns the lowest free place or the one after it
PlatformPlaces(size, alignment) ==
    LET free == FreePlaces(size, alignment)
    IN {a \in free : \A x, y \in free : (x < a /\ y < a) => x = y}

\* what the primitive may return: a place, or nullptr when it cannot
PlatformAlloc(size, alignment) == PlatformPlaces(size, alignment) \cup {nullptr}

(***************************************************************************)
(* NewDeleteResource                                                       *)
(***************************************************************************)
\* NewDeleteResource::do_allocate: the values it may return
NewDeleteResource_do_allocate(size, alignment) ==
    CASE build = "aligned_malloc" -> PlatformAlloc(size, alignment)
      [] build = "posix_memalign" ->
            IF alignment < sizeof_voidp
            THEN PlatformAlloc(size, alignof_max_align_t)
            ELSE PlatformAlloc(size, alignment)
      [] OTHER -> PlatformAlloc(size, alignment)

\* faulty variant: allocate has no early return
SkipsStrategy_Never(bytes) == FALSE

\* memory_resource::allocate: if (bytes == 0uz) { return nullptr; }
SkipsStrategy(bytes) == bytes = 0

\* memory_resource::allocate on a NewDeleteResource
NewDeleteResource_allocate(bytes, alignment) ==
    IF SkipsStrategy(bytes) THEN {nullptr}
    ELSE NewDeleteResource_do_allocate(bytes, alignment)

\* NewDeleteResource::do_deallocate: the heap after free(ptr)
NewDeleteResource_do_deallocate(h, ptr) ==
    IF ptr = nullptr THEN h ELSE {x \in h : x.addr # ptr}

\* memory_resource::deallocate on a NewDeleteResource
NewDeleteResource_deallocate(h, p) ==
    IF p = nullptr THEN h ELSE NewDeleteResource_do_deallocate(h, p)

\* faulty variant: deallocate has no early return
ReachesStrategy_Always(p) == TRUE

\* whether the strategy is reached at all (memory_resource::deallocate's early return)
ReachesStrategy(p) == p # nullptr

\* free() of an address the platform does not hold
InvalidFree(h, p) == p # nullptr /\ ~(\E x \in h : x.addr = p)

HeapEntry(a, n, al, tag) == [addr |-> a, size |-> n, align |-> al, tag |-> tag]

UpCall(op, a, n, al) == [op |-> op, addr |-> a, size |-> n, align |-> al]

(***************************************************************************)
(* monotonic_buffer_resource                                               *)
(***************************************************************************)
\* a block pointer b together with the header stored at b
Block(b, ptr, size) == [b |-> b, ptr |-> ptr, size |-> size]

\* a null block pointer
NoBlock == Block(nullptr, nullptr, 0)

RoundUp(pos, alignment) ==
    IF pos % alignment = 0 THEN pos ELSE pos + (alignment - (pos % alignment))

\* do_allocate: the request bypasses the chain
IsLarge(bytes) == bytes > block_size

\* do_allocate: the current block cannot take the request
NeedsNewBlock(bytes, alignment) ==
    \/ current.b = nullptr
    \/ RoundUp(current_pos, alignment) + bytes > current.size

\* do_allocate: the payload size of a new block
NewBlockSize(bytes) == Max(bytes, block_size)

\* do_allocate: block_size after a growth event
GrownBlockSize == 2 * block_size

\* do_allocate: the offset a request is placed at in a block filled to pos
PlaceOffset(pos, alignment) == RoundUp(pos, alignment)

\* faulty variant: the header is left out of the request
allocate_block_bytes_NoHeader(size) == size

\* allocate_block: the bytes asked of upstream for a block of payload size
allocate_block_bytes(size) == sizeof_block + size

\* faulty variant: the block is asked at the default alignment
allocate_block_align_Default == alignof_max_align_t

\* allocate_block: the alignment asked of upstream
allocate_block_align == alignof_block

\* faulty variant: b->ptr is the block itself, not the bytes after the header
allocate_block_header_AtHeader(b, size) == Block(b, b, size)

\* faulty variant: b->size is left at its default
allocate_block_header_NoSize(b, size) == Block(b, b + sizeof_block, 0)

\* allocate_block: b->ptr, b->size of the block placed at b
allocate_block_header(b, size) == Block(b, b + sizeof_block, size)

\* faulty variant: the block is linked at the tail
allocate_block_link_Tail(list, blk) == list \o <<blk>>

\* allocate_block: b->next = block_list; block_list = b
allocate_block_link(list, blk) == <<blk>> \o list

\* faulty variant: the header is left out of the size
free_block_bytes_NoHeader(blk) == blk.size

\* free_block: the bytes named to upstream
free_block_bytes(blk) == sizeof_block + blk.size

\* faulty variant: the walk starts at the second block
release_walk_SkipHead(list) == IF list = <<>> THEN <<>> ELSE Tail(list)

\* faulty variant: block_list is not reset
release_block_list_Keep(list) == list

\* faulty variant: current is not reset
release_current_Keep(cur) == cur

\* release: the blocks in the order the loop visits them
release_walk(list) == list

\* release: block_list and current afterwards
release_block_list(list) == <<>>
release_current(cur) == NoBlock

\* faulty variant: a request of exactly block_size bytes is forwarded too
do_deallocate_forwards_Inclusive(bytes) == bytes >= block_size

\* do_deallocate: the request is forwarded to upstream
do_deallocate_forwards(bytes) == bytes > block_size

\* do_deallocate: upstream->deallocate(p, bytes) leaves alignment defaulted
do_deallocate_align(alignment) == alignof_max_align_t

(***************************************************************************)
(* Upstream frees, applied in order to the platform heap.                  *)
(***************************************************************************)
RECURSIVE ApplyFrees(_, _, _)
ApplyFrees(h, calls, i) ==
    IF i > Len(calls) THEN [heap |-> h, bad |-> FALSE]
    ELSE LET p == calls[i].addr
             rest == ApplyFrees(NewDeleteResource_deallocate(h, p), calls, i + 1)
         IN [heap |-> rest.heap, bad |-> rest.bad \/ InvalidFree(h, p)]

\* only the calls that reach upstream's strategy are seen there
Forwarded(calls) == SelectSeq(calls, LAMBDA c : ReachesStrategy(c.addr))

Handed(a, n, al, kind, b) ==
    [addr |-> a, bytes |-> n, align |-> al, kind |-> kind, blk |-> b]

\* a public call: its arguments, the address it returned, and whether it
\* ended by throwing instead of returning
Last(op, bytes, alignment, p, ret) ==
    [op |-> op, bytes |-> bytes, align |-> alignment, p |-> p, ret |-> ret,
     threw |-> FALSE]

(***************************************************************************)
(* memory_resource::allocate on the arena.                                 *)
(***************************************************************************)
\* bytes == 0: nullptr, the strategy is not invoked
AllocateZero(bytes, alignment) ==
    /\ last' = Last("allocate", bytes, alignment, nullptr, nullptr)
    /\ up_calls' = <<>>
    /\ fresh_run' = FALSE
    /\ UNCHANGED <<heap, arena_vars, status, handed, bad_free>>

\* bytes > block_size: forwarded to upstream, which returned r
AllocateStandalone(bytes, alignment, r) ==
    /\ last' = Last("allocate", bytes, alignment, nullptr, r)
    /\ up_calls' = <<UpCall("allocate", r, bytes, alignment)>>
    /\ heap' = IF r = nullptr THEN heap
               ELSE heap \cup {HeapEntry(r, bytes, alignment, "standalone")}
    /\ handed' = IF r = nullptr THEN handed
                 ELSE Append(handed, Handed(r, bytes, alignment, "standalone", nullptr))
    /\ fresh_run' = (fresh_run /\ r # nullptr)
    /\ UNCHANGED <<arena_vars, status, bad_free>>

\* the request fits the current block
AllocateCarve(bytes, alignment) ==
    LET off == PlaceOffset(current_pos, alignment)
        addr == current.ptr + off
    IN /\ current_pos' = off + bytes
       /\ last' = Last("allocate", bytes, alignment, nullptr, addr)
       /\ up_calls' = <<>>
       /\ handed' = Append(handed, Handed(addr, bytes, alignment, "chained", current.b))
       /\ UNCHANGED <<heap, block_size, current, block_list, status, fresh_run, bad_free>>

\* a new block is needed; upstream returned b for it
AllocateNewBlock(bytes, alignment, b) ==
    LET size == NewBlockSize(bytes)
        call == UpCall("allocate", b, allocate_block_bytes(size), allocate_block_align)
    IN /\ up_calls' = <<call>>
       /\ IF b = nullptr
          THEN \* allocate_block stores through the null block pointer: the
               \* process faults before any member is updated
               /\ status' = "crashed"
               /\ last' = Last("allocate", bytes, alignment, nullptr, nullptr)
               /\ fresh_run' = FALSE
               /\ UNCHANGED <<heap, arena_vars, handed, bad_free>>
          ELSE LET blk == allocate_block_header(b, size)
                   off == PlaceOffset(0, alignment)
                   addr == blk.ptr + off
               IN /\ heap' = heap \cup {HeapEntry(b, call.size, call.align, "block")}
                  /\ block_list' = allocate_block_link(block_list, blk)
                  /\ current' = blk
                  /\ block_size' = GrownBlockSize
                  /\ current_pos' = off + bytes
                  /\ last' = Last("allocate", bytes, alignment, nullptr, addr)
                  /\ handed' = Append(handed, Handed(addr, bytes, alignment, "chained", b))
                  /\ UNCHANGED <<status, fresh_run, bad_free>>

Allocate(bytes, alignment) ==
    /\ status = "alive"
    /\ nops < MaxOps
    /\ nops' = nops + 1
    /\ UNCHANGED <<build, init_size, variant, other_vars>>
    /\ IF SkipsStrategy(bytes) THEN AllocateZero(bytes, alignment)
       ELSE IF IsLarge(bytes)
       THEN \E r \in NewDeleteResource_allocate(bytes, alignment) :
                AllocateStandalone(bytes, alignment, r)
       ELSE IF NeedsNewBlock(bytes, alignment)
       THEN \E b \in NewDeleteResource_allocate(
                        allocate_block_bytes(NewBlockSize(bytes)), allocate_block_align) :
                AllocateNewBlock(bytes, alignment, b)
       ELSE AllocateCarve(bytes, alignment)

(***************************************************************************)
(* memory_resource::deallocate on the arena.                               *)
(***************************************************************************)
\* the caller's record of the allocation it is giving back, if any
Matches(h, p, bytes) == h.addr = p /\ h.bytes = bytes

Forget(p, bytes) == SelectSeq(handed, LAMBDA h : ~Matches(h, p, bytes))

\* the caller's side of the contract: an address that would go to upstream
\* was allocated standalone with these bytes and is still held
CallerMayPass(p, bytes) ==
    (p # nullptr /\ bytes > block_size) =>
        \E i \in 1..Len(handed) :
            Matches(handed[i], p, bytes) /\ handed[i].kind = "standalone"

Deallocate(p, bytes, alignment) ==
    LET calls == IF ReachesStrategy(p) /\ do_deallocate_forwards(bytes)
                 THEN <<UpCall("deallocate", p, bytes, do_deallocate_align(alignment))>>
                 ELSE <<>>
        freed == ApplyFrees(heap, calls, 1)
    IN /\ status = "alive"
       /\ nops < MaxOps
       /\ nops' = nops + 1
       /\ CallerMayPass(p, bytes)
       \* do_deallocate never reads alignment: the call is recorded without it
       /\ last' = Last("deallocate", bytes, 1, p, nullptr)
       /\ up_calls' = Forwarded(calls)
       /\ heap' = freed.heap
       /\ bad_free' = (bad_free \/ freed.bad)
       /\ handed' = Forget(p, bytes)
       /\ fresh_run' = FALSE
       /\ UNCHANGED <<build, init_size, arena_vars, status, variant, other_vars>>

(***************************************************************************)
(* release and the destructor.                                             *)
(***************************************************************************)
release_calls(list) ==
    LET walk == release_walk(list)
    IN [i \in 1..Len(walk) |->
            UpCall("deallocate", walk[i].b, free_block_bytes(walk[i]),
                   alignof_max_align_t)]

ReleaseBody(op) ==
    LET calls == release_calls(block_list)
        freed == ApplyFrees(heap, calls, 1)
    IN /\ up_calls' = Forwarded(calls)
       /\ heap' = freed.heap
       /\ bad_free' = (bad_free \/ freed.bad)
       /\ block_list' = release_block_list(block_list)
       /\ current' = release_current(current)
       /\ handed' = SelectSeq(handed, LAMBDA h : h.kind = "standalone")
       /\ last' = Last(op, 0, 1, nullptr, nullptr)
       /\ fresh_run' = FALSE
       /\ UNCHANGED <<build, init_size, block_size, current_pos, variant, other_vars>>

Release ==
    /\ status = "alive"
    /\ nops < MaxOps
    /\ nops' = nops + 1
    /\ ReleaseBody("release")
    /\ UNCHANGED status

\* ~monotonic_buffer_resource
Destroy ==
    /\ status = "alive"
    /\ ReleaseBody("destroy")
    /\ status' = "destroyed"
    /\ UNCHANGED nops

(***************************************************************************)
(* The caller's inputs.                                                    *)
(***************************************************************************)
\* addresses a caller may pass to deallocate: null, what it was handed, or
\* an address it was never handed
WildAddr == HeapEnd
PtrInputs == {nullptr, WildAddr} \cup {handed[i].addr : i \in 1..Len(handed)}

Init ==
    \* no PBRT_HAVE_* macro is defined: the #else branch is compiled
    /\ build = "memalign"
    /\ variant = "arena"
    /\ OthersIdle
    /\ init_size \in {1, MaxInitSize}
    /\ block_size = init_size
    /\ heap = {}
    /\ current = NoBlock
    /\ current_pos = 0
    /\ block_list = <<>>
    /\ status = "alive"
    /\ last = Last("construct", 0, 1, nullptr, nullptr)
    /\ up_calls = <<>>
    /\ handed = <<>>
    /\ fresh_run = TRUE
    /\ bad_free = FALSE
    /\ nops = 0

Next ==
    \/ \E bytes \in Sizes, alignment \in Aligns : Allocate(bytes, alignment)
    \/ \E p \in PtrInputs, bytes \in Sizes, alignment \in Aligns :
            Deallocate(p, bytes, alignment)
    \/ Release
    \/ Destroy

Spec == Init /\ [][Next]_vars

(***************************************************************************)
(* The System Provider used directly: memory_resource::allocate and        *)
(* memory_resource::deallocate on a NewDeleteResource.                     *)
(***************************************************************************)
SysAllocate(bytes, alignment) ==
    /\ status = "alive"
    /\ nops < MaxOps
    /\ nops' = nops + 1
    /\ \E r \in NewDeleteResource_allocate(bytes, alignment) :
          /\ last' = Last("sys_allocate", bytes, alignment, nullptr, r)
          /\ heap' = IF r = nullptr THEN heap
                     ELSE heap \cup {HeapEntry(r, bytes, alignment, "caller")}
          /\ handed' = IF r = nullptr THEN handed
                       ELSE Append(handed, Handed(r, bytes, alignment, "system", nullptr))
    /\ UNCHANGED <<build, arena_vars, status, up_calls, init_size, fresh_run, bad_free,
                   variant, other_vars>>

\* the caller gives back what it holds, with the arguments it was allocated with
SysCallerMayPass(p, bytes, alignment) ==
    p # nullptr =>
        \E i \in 1..Len(handed) :
            Matches(handed[i], p, bytes) /\ handed[i].align = alignment

SysDeallocate(p, bytes, alignment) ==
    /\ status = "alive"
    /\ nops < MaxOps
    /\ nops' = nops + 1
    /\ SysCallerMayPass(p, bytes, alignment)
    /\ last' = Last("sys_deallocate", bytes, alignment, p, nullptr)
    /\ heap' = NewDeleteResource_deallocate(heap, p)
    /\ bad_free' = (bad_free \/ InvalidFree(heap, p))
    /\ handed' = Forget(p, bytes)
    /\ UNCHANGED <<build, arena_vars, status, up_calls, init_size, fresh_run,
                   variant, other_vars>>

InitSys ==
    /\ build \in Builds
    /\ variant = "system"
    /\ OthersIdle
    /\ init_size = MaxInitSize
    /\ block_size = init_size
    /\ heap = {}
    /\ current = NoBlock
    /\ current_pos = 0
    /\ block_list = <<>>
    /\ status = "alive"
    /\ last = Last("construct", 0, 1, nullptr, nullptr)
    /\ up_calls = <<>>
    /\ handed = <<>>
    /\ fresh_run = TRUE
    /\ bad_free = FALSE
    /\ nops = 0

NextSys ==
    \/ \E bytes \in Sizes, alignment \in Aligns : SysAllocate(bytes, alignment)
    \/ \E p \in PtrInputs, bytes \in Sizes, alignment \in Aligns :
            SysDeallocate(p, bytes, alignment)

SpecSys == InitSys /\ [][NextSys]_vars

(***************************************************************************)
(* A user-defined provider: a class derived from memory_resource whose     *)
(* strategy (do_allocate, do_deallocate) is the user's.  up_calls records  *)
(* the calls that reached the strategy.                                    *)
(***************************************************************************)
\* what the user's do_allocate may return
UserReturns == {nullptr, WildAddr}

UserAllocate(bytes, alignment) ==
    /\ status = "alive"
    /\ nops < MaxOps
    /\ nops' = nops + 1
    /\ IF SkipsStrategy(bytes)
       THEN /\ last' = Last("user_allocate", bytes, alignment, nullptr, nullptr)
            /\ up_calls' = <<>>
       ELSE \E r \in UserReturns :
                /\ last' = Last("user_allocate", bytes, alignment, nullptr, r)
                /\ up_calls' = <<UpCall("do_allocate", r, bytes, alignment)>>
    /\ UNCHANGED <<build, heap, arena_vars, status, handed, init_size, fresh_run,
                   bad_free, variant, other_vars>>

UserDeallocate(p, bytes, alignment) ==
    /\ status = "alive"
    /\ nops < MaxOps
    /\ nops' = nops + 1
    /\ last' = Last("user_deallocate", bytes, alignment, p, nullptr)
    /\ up_calls' = IF ReachesStrategy(p)
                   THEN <<UpCall("do_deallocate", p, bytes, alignment)>>
                   ELSE <<>>
    /\ UNCHANGED <<build, heap, arena_vars, status, handed, init_size, fresh_run,
                   bad_free, variant, other_vars>>

NextUser ==
    \/ \E bytes \in Sizes, alignment \in Aligns : UserAllocate(bytes, alignment)
    \/ \E p \in UserReturns, bytes \in Sizes, alignment \in Aligns :
            UserDeallocate(p, bytes, alignment)

(***************************************************************************)
(* Every provider variant behind the memory_resource interface.            *)
(***************************************************************************)
Variants == {"arena", "system", "user"}

InitProviders ==
    /\ variant \in Variants
    /\ build \in Builds
    /\ variant # "system" => build = "memalign"
    /\ OthersIdle
    /\ init_size \in {1, MaxInitSize}
    /\ variant # "arena" => init_size = MaxInitSize
    /\ block_size = init_size
    /\ heap = {}
    /\ current = NoBlock
    /\ current_pos = 0
    /\ block_list = <<>>
    /\ status = "alive"
    /\ last = Last("construct", 0, 1, nullptr, nullptr)
    /\ up_calls = <<>>
    /\ handed = <<>>
    /\ fresh_run = TRUE
    /\ bad_free = FALSE
    /\ nops = 0

NextProviders ==
    \/ variant = "arena" /\ nops < MaxIfaceOps /\ Next
    \/ variant = "system" /\ nops < MaxIfaceOps /\ NextSys
    \/ variant = "user" /\ nops < MaxIfaceOps /\ NextUser

SpecProviders == InitProviders /\ [][NextProviders]_vars

(***************************************************************************)
(* Providers and handles as objects: is_equal, operator==, the default     *)
(* System Provider and the constructors of polymorphic_allocator.          *)
(***************************************************************************)
\* nothing is done with the single provider of the specifications above
ProviderIdle ==
    /\ build = "memalign"
    /\ variant = "system"
    /\ init_size = MaxInitSize
    /\ block_size = init_size
    /\ heap = {}
    /\ current = NoBlock
    /\ current_pos = 0
    /\ block_list = <<>>
    /\ status = "alive"
    /\ last = Last("construct", 0, 1, nullptr, nullptr)
    /\ up_calls = <<>>
    /\ handed = <<>>
    /\ fresh_run = TRUE
    /\ bad_free = FALSE
    /\ nops = 0

\* a provider object: its dynamic type and its members; a user-defined
\* provider draws its memory from the pool it names
Instance(kind, upstream, blocks, pool, origin) ==
    [kind |-> kind, upstream |-> upstream, blocks |-> blocks, pool |-> pool,
     origin |-> origin]

Pools == {1, 2}
Types == {"char", "int"}

\* faulty variant: the members are compared, not the addresses
do_is_equal_ByState(this, other) == instances[this] = instances[other]

\* NewDeleteResource::do_is_equal, monotonic_buffer_resource::do_is_equal:
\* return this == &other
do_is_equal(this, other) == this = other

\* a do_is_equal a user-defined provider may have: true when the two
\* providers hand out interchangeable memory
user_do_is_equal(this, other) ==
    /\ instances[other].kind = "user"
    /\ instances[other].pool = instances[this].pool

\* memory_resource::is_equal: the virtual call
is_equal(this, other) ==
    IF instances[this].kind = "user"
    THEN user_do_is_equal(this, other)
    ELSE do_is_equal(this, other)

\* operator==(const memory_resource &a, const memory_resource &b)
memory_resource_eq(a, b) == is_equal(a, b)

\* a polymorphic_allocator<Tp>: its member, and how it was constructed
Handle(r, Tp, how, src) ==
    [memoryResource |-> r, Tp |-> Tp, how |-> how, src |-> src]

\* polymorphic_allocator::resource
resource(h) == h.memoryResource

\* operator==(const polymorphic_allocator<T1> &a, const polymorphic_allocator<T2> &b)
polymorphic_allocator_eq(a, b) == resource(a) = resource(b)

\* the caller constructs a provider
NewProvider(kind, upstream, pool) ==
    /\ Len(instances) < MaxInstances
    /\ instances' = Append(instances, Instance(kind, upstream, 0, pool, "caller"))
    /\ UNCHANGED <<ndr, handle_list, provider_vars, handle_vars, vec_vars, tagged_vars>>

\* an arena acquires a block: allocate_block links it
ArenaAcquire(i) ==
    /\ instances[i].kind = "arena"
    /\ instances[i].blocks = 0
    /\ instances' = [instances EXCEPT ![i].blocks = 1]
    /\ UNCHANGED <<ndr, handle_list, provider_vars, handle_vars, vec_vars, tagged_vars>>

\* monotonic_buffer_resource::release
ArenaRelease(i) ==
    /\ instances[i].kind = "arena"
    /\ instances[i].blocks > 0
    /\ instances' = [instances EXCEPT ![i].blocks = 0]
    /\ UNCHANGED <<ndr, handle_list, provider_vars, handle_vars, vec_vars, tagged_vars>>

\* ndr has internal linkage, new_delete_resource is inline: a call made in
\* translation unit tu reads the ndr of tu when the call is inlined, and the
\* ndr of the unit whose copy of the function the linker kept otherwise
KeptTU == 1
NdrSlots(tu) == {tu, KeptTU}

\* new_delete_resource() reading the ndr of translation unit slot
new_delete_resource_creates(slot) == ndr[slot] = nullptr

\* polymorphic_allocator(): memoryResource = new_delete_resource()
DefaultHandle(tu, slot, Tp) ==
    /\ Len(handle_list) < MaxHandles
    /\ IF new_delete_resource_creates(slot)
       THEN /\ Len(instances) < MaxInstances
            /\ instances' = Append(instances,
                    Instance("system", nullptr, 0, 0, "new_delete_resource"))
            /\ ndr' = [ndr EXCEPT ![slot] = Len(instances) + 1]
       ELSE UNCHANGED <<instances, ndr>>
    /\ handle_list' = Append(handle_list, Handle(ndr'[slot], Tp, "default", 0))
    /\ UNCHANGED <<provider_vars, handle_vars, vec_vars, tagged_vars>>

\* polymorphic_allocator(memory_resource *r)
MakeHandle(r, Tp) ==
    /\ Len(handle_list) < MaxHandles
    /\ handle_list' = Append(handle_list, Handle(r, Tp, "explicit", 0))
    /\ UNCHANGED <<instances, ndr, provider_vars, handle_vars, vec_vars, tagged_vars>>

\* polymorphic_allocator(const polymorphic_allocator &other) and
\* polymorphic_allocator(const polymorphic_allocator<U> &other)
CopyHandle(k, Tp) ==
    /\ Len(handle_list) < MaxHandles
    /\ handle_list' = Append(handle_list,
            Handle(resource(handle_list[k]), Tp, "copy", k))
    /\ UNCHANGED <<instances, ndr, provider_vars, handle_vars, vec_vars, tagged_vars>>

InitEq == ProviderIdle /\ OthersIdle

\* providers are made and used; no handle refers to them
NextInstances ==
    \/ NewProvider("system", nullptr, 0)
    \/ \E u \in DOMAIN instances : NewProvider("arena", u, 0)
    \/ \E pool \in Pools : NewProvider("user", nullptr, pool)
    \/ \E i \in DOMAIN instances : ArenaAcquire(i)
    \/ \E i \in DOMAIN instances : ArenaRelease(i)

SpecInstances == InitEq /\ [][NextInstances]_vars

NextEq ==
    \/ NextInstances
    \/ \E tu \in TUs, Tp \in Types : \E slot \in NdrSlots(tu) :
            DefaultHandle(tu, slot, Tp)
    \/ \E r \in DOMAIN instances, Tp \in Types : MakeHandle(r, Tp)
    \/ \E k \in DOMAIN handle_list, Tp \in Types : CopyHandle(k, Tp)

SpecEq == InitEq /\ [][NextEq]_vars

(***************************************************************************)
(* The typed operations of polymorphic_allocator, on a default-constructed *)
(* handle: its provider is the NewDeleteResource.                          *)
(***************************************************************************)
\* std::numeric_limits<std::size_t>::max()
SIZE_MAX == Pow2(SizeBits) - 1

\* multiplication in std::size_t
size_mul(a, b) == (a * b) % (SIZE_MAX + 1)

\* an object type U: sizeof(U), alignof(U)
ObjType(name, size, align) == [name |-> name, size |-> size, align |-> align]
ObjTypes == {ObjType("char", 1, 1), ObjType("int", 4, 4)}

\* the counts a caller passes: none, one, the largest, and both sides of
\* each type's limit
Counts ==
    {n \in 0..SIZE_MAX :
        \/ n \in {0, 1, SIZE_MAX}
        \/ \E U \in ObjTypes : n \in {SIZE_MAX \div U.size, (SIZE_MAX \div U.size) + 1}}

\* one thing a handle operation did: a call on the provider ("allocate",
\* "deallocate") or on the object ("construct", "destroy"); live tells
\* whether an object was constructed at p at that moment
Ev(ev, p, bytes, align, live) ==
    [ev |-> ev, p |-> p, bytes |-> bytes, align |-> align, live |-> live]

\* storage for one object of type U at addr
Slot(addr, U, state, torn) == [addr |-> addr, U |-> U, state |-> state, torn |-> torn]

IsLive(ss, p) == \E x \in ss : x.addr = p /\ x.state = "constructed"

\* what a handle operation leaves alone
handle_frame ==
    <<build, arena_vars, last, up_calls, handed, init_size, fresh_run, bad_free,
      variant, eq_vars, vec_vars, tagged_vars>>

\* faulty variant: the product is not checked
allocate_object_overflows_Never(U, n) == FALSE

\* allocate_object: std::numeric_limits<std::size_t>::max() / sizeof(U) < n
allocate_object_overflows(U, n) == (SIZE_MAX \div U.size) < n

\* allocate_object: n * sizeof(U)
allocate_object_bytes(U, n) == size_mul(n, U.size)

\* faulty variant: room for two objects is asked for
allocate_object_default_n_Two == 1 + 1

\* allocate_object(std::size_t n = 1uz), deallocate_object(U *p, std::size_t n = 1uz)
allocate_object_default_n == 1
deallocate_object_default_n == 1

\* allocate_object<U>(n)
AllocateObject(U, n) ==
    LET bytes == allocate_object_bytes(U, n)
    IN /\ status = "alive"
       /\ nops < MaxOps
       /\ nops' = nops + 1
       /\ IF allocate_object_overflows(U, n)
          THEN /\ h_last' = HandleOp("allocate_object", U, n, nullptr, nullptr,
                                     "bad_array_new_length")
               /\ h_log' = <<>>
               /\ UNCHANGED <<heap, slots>>
          ELSE \E r \in NewDeleteResource_allocate(bytes, U.align) :
                  /\ h_last' = HandleOp("allocate_object", U, n, nullptr, r, "none")
                  /\ h_log' = <<Ev("allocate", r, bytes, U.align, FALSE)>>
                  /\ heap' = IF r = nullptr THEN heap
                             ELSE heap \cup {HeapEntry(r, bytes, U.align, "object")}
                  /\ slots' = IF r = nullptr THEN slots
                              ELSE slots \cup {Slot(r, U, "raw", 0)}
       /\ UNCHANGED <<status, handle_frame>>

\* new_object<U>(args): p = allocate_object<U>(); construct(p, args); the
\* constructor may throw
NewObject(U, ctor_throws) ==
    LET n == allocate_object_default_n
        bytes == allocate_object_bytes(U, n)
    IN /\ status = "alive"
       /\ nops < MaxOps
       /\ nops' = nops + 1
       /\ IF allocate_object_overflows(U, n)
          THEN /\ h_last' = HandleOp("new_object", U, n, nullptr, nullptr,
                                     "bad_array_new_length")
               /\ h_log' = <<>>
               /\ UNCHANGED <<heap, slots, status>>
          ELSE \E r \in NewDeleteResource_allocate(bytes, U.align) :
                  /\ h_log' = <<Ev("allocate", r, bytes, U.align, FALSE),
                                Ev("construct", r, U.size, U.align, FALSE)>>
                  /\ IF r = nullptr
                     THEN \* ::new ((void *)p) U(...) with p null is undefined:
                          \* the constructor faults, or nothing is built
                          /\ status' \in {"crashed", "alive"}
                          /\ h_last' = HandleOp("new_object", U, n, nullptr, nullptr, "none")
                          /\ UNCHANGED <<heap, slots>>
                     ELSE /\ heap' = heap \cup {HeapEntry(r, bytes, U.align, "object")}
                          /\ slots' = slots \cup
                                {Slot(r, U, IF ctor_throws THEN "raw" ELSE "constructed", 0)}
                          /\ h_last' = HandleOp("new_object", U, n, r,
                                                IF ctor_throws THEN nullptr ELSE r,
                                                IF ctor_throws THEN "ctor" ELSE "none")
                          /\ UNCHANGED status
       /\ UNCHANGED handle_frame

\* faulty variant: the destructor is not run
destroy_slot_NoTeardown(x) == x

\* destroy: p->~U()
destroy_slot(x) == [x EXCEPT !.state = "raw", !.torn = @ + 1]

\* construct: ::new ((void *)p) U(std::forward<Args>(args)...)
construct_slot(x, ctor_throws) ==
    IF ctor_throws THEN x ELSE [x EXCEPT !.state = "constructed", !.torn = 0]

\* faulty variant: the memory is given back before the object is torn down
delete_object_steps_DeallocateFirst == <<"deallocate_object", "destroy">>

\* delete_object: destroy(p); deallocate_object(p);
delete_object_steps == <<"destroy", "deallocate_object">>

\* one statement of delete_object, on the local state st
HandleStep(step, st, p, U) ==
    IF step = "destroy"
    THEN [st EXCEPT
            !.log = Append(@, Ev("destroy", p, U.size, U.align, IsLive(st.slots, p))),
            !.slots = {IF x.addr = p THEN destroy_slot(x) ELSE x : x \in st.slots}]
    ELSE \* deallocate_object(p) -> deallocate_bytes(p, n * sizeof(U), alignof(U))
         \*   -> resource()->deallocate(p, nbytes, alignment)
         [st EXCEPT
            !.log = Append(@, Ev("deallocate", p,
                                 size_mul(deallocate_object_default_n, U.size),
                                 U.align, IsLive(st.slots, p))),
            !.heap = NewDeleteResource_deallocate(@, p),
            !.slots = {x \in st.slots : x.addr # p}]

RECURSIVE RunSteps(_, _, _, _, _)
RunSteps(steps, i, st, p, U) ==
    IF i > Len(steps) THEN st
    ELSE RunSteps(steps, i + 1, HandleStep(steps[i], st, p, U), p, U)

\* the slots a caller may name
SlotsIn(state) == {x \in slots : x.state = state}

\* delete_object(p), p an object made by new_object
DeleteObject(x) ==
    LET st == RunSteps(delete_object_steps, 1,
                       [slots |-> slots, heap |-> heap, log |-> <<>>], x.addr, x.U)
    IN /\ status = "alive"
       /\ nops < MaxOps
       /\ nops' = nops + 1
       /\ slots' = st.slots
       /\ heap' = st.heap
       /\ h_log' = st.log
       /\ h_last' = HandleOp("delete_object", x.U, 1, x.addr, nullptr, "none")
       /\ UNCHANGED <<status, handle_frame>>

\* construct(p, args) on allocated storage that holds no object
Construct(x, ctor_throws) ==
    /\ status = "alive"
    /\ nops < MaxOps
    /\ nops' = nops + 1
    /\ slots' = (slots \ {x}) \cup {construct_slot(x, ctor_throws)}
    /\ h_log' = <<Ev("construct", x.addr, x.U.size, x.U.align, FALSE)>>
    /\ h_last' = HandleOp("construct", x.U, 1, x.addr, nullptr,
                          IF ctor_throws THEN "ctor" ELSE "none")
    /\ UNCHANGED <<heap, status, handle_frame>>

\* destroy(p) on an object
DestroyObject(x) ==
    /\ status = "alive"
    /\ nops < MaxOps
    /\ nops' = nops + 1
    /\ slots' = (slots \ {x}) \cup {destroy_slot(x)}
    /\ h_log' = <<Ev("destroy", x.addr, x.U.size, x.U.align, TRUE)>>
    /\ h_last' = HandleOp("destroy", x.U, 1, x.addr, nullptr, "none")
    /\ UNCHANGED <<heap, status, handle_frame>>

\* allocate, deallocate: n * sizeof(Tp)
allocate_nbytes(Tp, n) == size_mul(n, Tp.size)

\* the counts a caller passes to allocate: Counts, and for each type the
\* second count past its limit
AllocateCounts ==
    Counts \cup {n \in 0..SIZE_MAX : \E Tp \in ObjTypes : n = (SIZE_MAX \div Tp.size) + 2}

\* polymorphic_allocator<Tp>::allocate(n):
\* resource()->allocate(n * sizeof(Tp), alignof(Tp))
allocate(Tp, n) ==
    LET bytes == allocate_nbytes(Tp, n)
    IN /\ status = "alive"
       /\ nops < MaxOps
       /\ nops' = nops + 1
       /\ \E r \in NewDeleteResource_allocate(bytes, Tp.align) :
             /\ h_last' = HandleOp("allocate", Tp, n, nullptr, r, "none")
             /\ h_log' = <<Ev("allocate", r, bytes, Tp.align, FALSE)>>
             /\ heap' = IF r = nullptr THEN heap
                        ELSE heap \cup {HeapEntry(r, bytes, Tp.align, "object")}
             /\ slots' = IF r = nullptr THEN slots
                         ELSE slots \cup {Slot(r, Tp, "raw", 0)}
       /\ UNCHANGED <<status, handle_frame>>

\* the counts n for which n * sizeof(Tp), as the handle computes it, is the
\* size the storage at x was obtained with
CountsOf(x) ==
    {n \in AllocateCounts :
        \E e \in heap : e.addr = x.addr /\ e.size = allocate_nbytes(x.U, n)}

\* polymorphic_allocator<Tp>::deallocate(p, n):
\* resource()->deallocate(p, n * sizeof(Tp), alignof(Tp)), p holding no object
deallocate(x, n) ==
    /\ status = "alive"
    /\ nops < MaxOps
    /\ nops' = nops + 1
    /\ h_last' = HandleOp("deallocate", x.U, n, x.addr, nullptr, "none")
    /\ h_log' = <<Ev("deallocate", x.addr, allocate_nbytes(x.U, n), x.U.align, FALSE)>>
    /\ heap' = NewDeleteResource_deallocate(heap, x.addr)
    /\ slots' = {y \in slots : y.addr # x.addr}
    /\ UNCHANGED <<status, handle_frame>>

InitHandle == ProviderIdle /\ OthersIdle

NextHandle ==
    \/ \E U \in ObjTypes, n \in Counts : AllocateObject(U, n)
    \/ \E U \in ObjTypes, ctor_throws \in BOOLEAN : NewObject(U, ctor_throws)
    \/ \E x \in SlotsIn("constructed") : DeleteObject(x)
    \/ \E x \in SlotsIn("raw"), ctor_throws \in BOOLEAN : Construct(x, ctor_throws)
    \/ \E x \in SlotsIn("constructed") : DestroyObject(x)
    \/ \E Tp \in ObjTypes, n \in AllocateCounts : allocate(Tp, n)
    \/ \E x \in SlotsIn("raw") : \E n \in CountsOf(x) : deallocate(x, n)

SpecHandle == InitHandle /\ [][NextHandle]_vars

(***************************************************************************)
(* vector<char> over a default-constructed handle.  Element counts are     *)
(* capped at MaxCount, below SIZE_MAX: allocate_object's overflow test     *)
(* cannot fire and 2uz * nAlloc cannot wrap.                               *)
(***************************************************************************)
value_type == ObjType("char", 1, 1)

\* what a vector operation leaves alone
vec_frame ==
    <<build, arena_vars, last, up_calls, handed, init_size, fresh_run, bad_free,
      variant, eq_vars, handle_vars, content_vars, vectors_vars, tagged_vars>>

\* one thing a vector operation asked of its handle: allocate_object (n
\* elements, p the result), deallocate_object (p, n), construct or destroy
\* (element i of the buffer p)
VEv(ev, p, n, i) == [ev |-> ev, p |-> p, n |-> n, i |-> i]

\* faulty variant: the capacity grows by one element
push_back_growth_PlusOne(cap) == cap + 1

\* push_back, emplace_back: nAlloc == 0uz ? 4uz : 2uz * nAlloc
push_back_growth(cap) == IF cap = 0 THEN 4 ELSE 2 * cap

\* reserve: if (n <= this->nAlloc) { return ; }
reserve_returns(n) == n <= nAlloc

\* reserve: what allocate_object<value_type>(n) may return
reserve_allocates(n) ==
    IF reserve_returns(n) THEN {nullptr}
    ELSE NewDeleteResource_allocate(allocate_object_bytes(value_type, n),
                                    value_type.align)

\* reserve: the loop that moves element i into ra and destroys the old one
reserve_moves(ra) ==
    [j \in 1..(2 * nStored) |->
        IF j % 2 = 1 THEN VEv("construct", ra, 0, (j - 1) \div 2)
                     ELSE VEv("destroy", v_ptr, 0, (j - 2) \div 2)]

\* reserve(n), allocate_object having returned ra: the members, the heap
\* and the requests afterwards; storing an element through a null ra faults
reserve(n, ra) ==
    IF reserve_returns(n)
    THEN [ptr |-> v_ptr, nAlloc |-> nAlloc, heap |-> heap, log |-> <<>>,
          faults |-> FALSE]
    ELSE IF ra = nullptr /\ nStored > 0
    THEN [ptr |-> v_ptr, nAlloc |-> nAlloc, heap |-> heap,
          log |-> <<VEv("allocate", ra, n, 0)>>, faults |-> TRUE]
    ELSE [ptr |-> ra,
          nAlloc |-> n,
          heap |-> NewDeleteResource_deallocate(
                      IF ra = nullptr THEN heap
                      ELSE heap \cup {HeapEntry(ra, allocate_object_bytes(value_type, n),
                                                value_type.align, "buffer")},
                      v_ptr),
          log |-> <<VEv("allocate", ra, n, 0)>> \o reserve_moves(ra)
                     \o <<VEv("deallocate", v_ptr, nAlloc, 0)>>,
          faults |-> FALSE]

\* construct or destroy of the elements from..to-1 of the buffer p
ElementEvents(ev, p, from, to) ==
    [j \in 1..(IF to > from THEN to - from ELSE 0) |-> VEv(ev, p, 0, from + j - 1)]

\* the operation ran to its end, or faulted on a store through a null pointer
VecFinish(op, arg, faults, ptr, cap, size, h, log) ==
    /\ v_last' = VecOp(op, arg, nAlloc, nStored)
    /\ v_log' = log
    /\ IF faults
       THEN /\ status' = "crashed"
            /\ UNCHANGED <<v_ptr, nAlloc, nStored, heap>>
       ELSE /\ status' = status
            /\ v_ptr' = ptr
            /\ nAlloc' = cap
            /\ nStored' = size
            /\ heap' = h

VecCall ==
    /\ status = "alive"
    /\ nops < MaxVecOps
    /\ nops' = nops + 1
    /\ UNCHANGED vec_frame

\* push_back(value) and emplace_back(args)
Append_back(op) ==
    LET n == IF nAlloc = nStored THEN push_back_growth(nAlloc) ELSE nAlloc
    IN /\ VecCall
       /\ n <= MaxCount
       /\ \E ra \in reserve_allocates(n) :
             LET st == reserve(n, ra)
             IN VecFinish(op, 0, st.faults \/ st.ptr = nullptr, st.ptr, st.nAlloc,
                          nStored + 1, st.heap,
                          st.log \o (IF st.faults THEN <<>>
                                     ELSE <<VEv("construct", st.ptr, 0, nStored)>>))

push_back == Append_back("push_back")

emplace_back == Append_back("emplace_back")

\* pop_back() on a vector that is not empty
pop_back ==
    /\ VecCall
    /\ nStored > 0
    /\ VecFinish("pop_back", 0, FALSE, v_ptr, nAlloc, nStored - 1, heap,
                 <<VEv("destroy", v_ptr, 0, nStored - 1)>>)

\* reserve(n) called by the user
Reserve(n) ==
    /\ VecCall
    /\ \E ra \in reserve_allocates(n) :
          LET st == reserve(n, ra)
          IN VecFinish("reserve", n, st.faults, st.ptr, st.nAlloc, nStored, st.heap, st.log)

\* resize(count)
resize(count) ==
    /\ VecCall
    /\ IF count < nStored
       THEN LET destroys == ElementEvents("destroy", v_ptr, count, nStored)
            IN IF count = 0
               THEN VecFinish("resize", count, FALSE, nullptr, 0, count,
                              NewDeleteResource_deallocate(heap, v_ptr),
                              destroys \o <<VEv("deallocate", v_ptr, nAlloc, 0)>>)
               ELSE VecFinish("resize", count, FALSE, v_ptr, nAlloc, count, heap, destroys)
       ELSE IF count > nStored
       THEN \E ra \in reserve_allocates(count) :
               LET st == reserve(count, ra)
               IN VecFinish("resize", count, st.faults \/ st.ptr = nullptr, st.ptr,
                            st.nAlloc, count, st.heap,
                            st.log \o (IF st.faults THEN <<>>
                                       ELSE ElementEvents("construct", st.ptr, nStored, count)))
       ELSE VecFinish("resize", count, FALSE, v_ptr, nAlloc, count, heap, <<>>)

\* clear()
clear ==
    /\ VecCall
    /\ VecFinish("clear", 0, FALSE, v_ptr, nAlloc, 0, heap,
                 ElementEvents("destroy", v_ptr, 0, nStored))

VecCounts == 0..MaxCount

InitVec == ProviderIdle /\ OthersIdle

NextVec ==
    \/ push_back
    \/ emplace_back
    \/ pop_back
    \/ \E n \in VecCounts : Reserve(n)
    \/ \E count \in VecCounts : resize(count)
    \/ clear

SpecVec == InitVec /\ [][NextVec]_vars

(***************************************************************************)
(* vector<char> whose handle refers to a monotonic_buffer_resource over    *)
(* the System Provider; the elements' values are followed through the      *)
(* buffers.  Appends are capped at MaxAppends, below the capacity at which *)
(* 2uz * nAlloc wraps.                                                     *)
(***************************************************************************)
\* the values a caller appends
Values == {"a", "b"}

\* an element constructed at address a
Cell(a, v) == [addr |-> a, value |-> v]

\* ptr + i
ElementAddr(p, i) == p + i * value_type.size

\* the value of the element constructed at address a
ValueAt(mem, a) == (CHOOSE c \in mem : c.addr = a).value

\* what the arena's do_allocate returned, the members and the platform heap
\* afterwards, and the calls it made on upstream
ArenaResult(ret, bs, cur, pos, list, h, calls, faults) ==
    [ret |-> ret, block_size |-> bs, current |-> cur, current_pos |-> pos,
     block_list |-> list, heap |-> h, calls |-> calls, faults |-> faults]

\* what upstream may answer to the call do_allocate makes on it, if any
do_allocate_upstream(bytes, alignment) ==
    IF SkipsStrategy(bytes) THEN {nullptr}
    ELSE IF IsLarge(bytes) THEN NewDeleteResource_allocate(bytes, alignment)
    ELSE IF NeedsNewBlock(bytes, alignment)
    THEN NewDeleteResource_allocate(allocate_block_bytes(NewBlockSize(bytes)),
                                    allocate_block_align)
    ELSE {nullptr}

\* monotonic_buffer_resource::do_allocate, upstream having answered r
do_allocate(bytes, alignment, r) ==
    IF IsLarge(bytes)
    THEN ArenaResult(r, block_size, current, current_pos, block_list,
                     IF r = nullptr THEN heap
                     ELSE heap \cup {HeapEntry(r, bytes, alignment, "standalone")},
                     <<UpCall("allocate", r, bytes, alignment)>>, FALSE)
    ELSE IF NeedsNewBlock(bytes, alignment)
    THEN LET size == NewBlockSize(bytes)
             call == UpCall("allocate", r, allocate_block_bytes(size), allocate_block_align)
             blk == allocate_block_header(r, size)
             off == PlaceOffset(0, alignment)
         IN IF r = nullptr
            THEN \* allocate_block stores through the null block pointer
                 ArenaResult(nullptr, block_size, current, current_pos, block_list,
                             heap, <<call>>, TRUE)
            ELSE ArenaResult(blk.ptr + off, GrownBlockSize, blk, off + bytes,
                             allocate_block_link(block_list, blk),
                             heap \cup {HeapEntry(r, call.size, call.align, "block")},
                             <<call>>, FALSE)
    ELSE LET off == PlaceOffset(current_pos, alignment)
         IN ArenaResult(current.ptr + off, block_size, current, off + bytes,
                        block_list, heap, <<>>, FALSE)

\* memory_resource::allocate on the arena, upstream having answered r
monotonic_allocate(bytes, alignment, r) ==
    IF SkipsStrategy(bytes)
    THEN ArenaResult(nullptr, block_size, current, current_pos, block_list, heap,
                     <<>>, FALSE)
    ELSE do_allocate(bytes, alignment, r)

\* faulty variant: the elements are moved in reverse
reserve_relocate_Reversed(mem, ra) ==
    {Cell(ElementAddr(ra, i), ValueAt(mem, ElementAddr(v_ptr, nStored - 1 - i))) :
        i \in 0..(nStored - 1)}

\* reserve: construct(ra + i, std::move(begin()[i])) and destroy(begin() + i)
\* for every i < nStored
reserve_relocate(mem, ra) ==
    {Cell(ElementAddr(ra, i), ValueAt(mem, ElementAddr(v_ptr, i))) :
        i \in 0..(nStored - 1)}

\* what a push_back on the arena leaves alone
arena_vec_frame ==
    <<build, init_size, variant, last, handed, fresh_run, eq_vars, handle_vars,
      vectors_vars, tagged_vars>>

\* push_back(value): reserve when full, whose allocate_object reaches the
\* arena's do_allocate and whose deallocate_object reaches its do_deallocate,
\* then construct at ptr + nStored
ArenaPushBack(value) ==
    LET grows == nAlloc = nStored
        n == push_back_growth(nAlloc)
        bytes == allocate_object_bytes(value_type, n)
    IN /\ status = "alive"
       /\ nops < MaxAppends
       /\ nops' = nops + 1
       /\ UNCHANGED arena_vec_frame
       /\ v_last' = VecOp("push_back", value, nAlloc, nStored)
       /\ IF ~grows
          THEN /\ v_mem' = v_mem \cup {Cell(ElementAddr(v_ptr, nStored), value)}
               /\ nStored' = nStored + 1
               /\ v_pushed' = Append(v_pushed, value)
               /\ v_log' = <<VEv("construct", v_ptr, 0, nStored)>>
               /\ up_calls' = <<>>
               /\ UNCHANGED <<v_ptr, nAlloc, v_reqs, heap, arena_vars, status, bad_free>>
          ELSE /\ ~allocate_object_overflows(value_type, n)
               /\ \E r \in do_allocate_upstream(bytes, value_type.align),
                     old \in {v_ptr},
                     oldbytes \in {allocate_object_bytes(value_type, nAlloc)} :
                    LET al == monotonic_allocate(bytes, value_type.align, r)
                        ra == al.ret
                    IN IF al.faults \/ ra = nullptr
                       THEN \* a store through a null pointer, in allocate_block,
                            \* in reserve's loop or in push_back's construct
                            /\ status' = "crashed"
                            /\ v_log' = <<VEv("allocate", ra, n, 0)>>
                            /\ v_reqs' = Append(v_reqs, VEv("allocate", ra, n, 0))
                            /\ up_calls' = al.calls
                            /\ UNCHANGED <<v_ptr, nAlloc, nStored, v_mem, v_pushed,
                                           heap, arena_vars, bad_free>>
                       ELSE /\ block_size' = al.block_size
                            /\ current' = al.current
                            /\ current_pos' = al.current_pos
                            /\ block_list' = al.block_list
                            \* do_deallocate reads block_size as do_allocate left it
                            /\ LET calls ==
                                     IF ReachesStrategy(old) /\ do_deallocate_forwards(oldbytes)'
                                     THEN <<UpCall("deallocate", old, oldbytes,
                                                   do_deallocate_align(value_type.align))>>
                                     ELSE <<>>
                                   freed == ApplyFrees(al.heap, calls, 1)
                               IN /\ heap' = freed.heap
                                  /\ bad_free' = (bad_free \/ freed.bad)
                                  /\ up_calls' = al.calls \o Forwarded(calls)
                            /\ v_mem' = reserve_relocate(v_mem, ra)
                                          \cup {Cell(ElementAddr(ra, nStored), value)}
                            /\ v_ptr' = ra
                            /\ nAlloc' = n
                            /\ nStored' = nStored + 1
                            /\ v_pushed' = Append(v_pushed, value)
                            /\ v_log' = <<VEv("allocate", ra, n, 0)>> \o reserve_moves(ra)
                                          \o <<VEv("deallocate", old, nAlloc, 0),
                                               VEv("construct", ra, 0, nStored)>>
                            /\ v_reqs' = v_reqs \o <<VEv("allocate", ra, n, 0),
                                                     VEv("deallocate", old, nAlloc, 0)>>
                            /\ UNCHANGED status

\* a fresh arena: monotonic_buffer_resource(initial_size, new_delete_resource())
InitVecArena ==
    /\ build = "memalign"
    /\ variant = "arena"
    /\ OthersIdle
    /\ init_size \in {MaxInitSize, MaxCount, 4 * MaxCount}
    /\ block_size = init_size
    /\ heap = {}
    /\ current = NoBlock
    /\ current_pos = 0
    /\ block_list = <<>>
    /\ status = "alive"
    /\ last = Last("construct", 0, 1, nullptr, nullptr)
    /\ up_calls = <<>>
    /\ handed = <<>>
    /\ fresh_run = TRUE
    /\ bad_free = FALSE
    /\ nops = 0

NextVecArena == \E value \in Values : ArenaPushBack(value)

SpecVecArena == InitVecArena /\ [][NextVecArena]_vars

(***************************************************************************)
(* zstl::tagged_ptr<Ts...> (include/ZSTL/tagged_ptr.hpp): an address and a *)
(* type tag packed in one std::uintptr_t.  The word is modelled            *)
(* TAG_SHIFT + TagBits wide, the tag in its top TagBits bits, as 59 + 5    *)
(* bits of 64 in the source.  A listed type is its 1-based position in     *)
(* Ts...; the program holds two tagged_ptr objects, my_shape and my_shape2.*)
(***************************************************************************)
UINTPTR_MAX == Pow2(TAG_SHIFT + TagBits) - 1

\* (1uz << TAG_SHIFT) - 1uz
GET_PTR_MASK == Pow2(TAG_SHIFT) - 1

\* the longest type list: one type more than the tag can tell apart from null
MaxTypes == Pow2(TagBits) + 1

RECURSIVE BitOr(_, _)
BitOr(a, b) ==
    IF a = 0 THEN b
    ELSE IF b = 0 THEN a
    ELSE 2 * BitOr(a \div 2, b \div 2) + (IF a % 2 = 1 \/ b % 2 = 1 THEN 1 ELSE 0)

RECURSIVE BitAnd(_, _)
BitAnd(a, b) ==
    IF a = 0 \/ b = 0 THEN 0
    ELSE 2 * BitAnd(a \div 2, b \div 2) + (IF a % 2 = 1 /\ b % 2 = 1 THEN 1 ELSE 0)

\* x << k and x >> k in std::uintptr_t
ShiftLeft(x, k) == (x * Pow2(k)) % (UINTPTR_MAX + 1)
ShiftRight(x, k) == x \div Pow2(k)

\* the listed types of tagged_ptr<Ts...>
ListedTypes == 1..number_of_types

\* a live object of a listed type; its address is below 2^TAG_SHIFT
Object(p, T) == [addr |-> p, type |-> T]
NoObject == Object(nullptr, 0)
Objects == {Object(p, T) : p \in 1..GET_PTR_MASK, T \in ListedTypes}

\* get_type_tag<T>(): type_index_v<T, std::nullptr_t, Ts...>
get_type_tag(T) == T

\* a tagged_ptr object: its member, and the object it was made from
TaggedPtr(tagged_address, from) == [tagged_address |-> tagged_address, from |-> from]

\* tagged_ptr(std::nullptr_t)
tagged_ptr_null == TaggedPtr(0, NoObject)

\* tagged_ptr(const T *ptr)
tagged_ptr_from(x) ==
    TaggedPtr(BitOr(x.addr, ShiftLeft(get_type_tag(x.type), TAG_SHIFT)), x)

tag(t) == ShiftRight(t.tagged_address, TAG_SHIFT)

ptr(t) == BitAnd(t.tagged_address, GET_PTR_MASK)

points_to_type(t, T) == tag(t) = get_type_tag(T)

\* cast<T>()
cast(t, T) == IF points_to_type(t, T) THEN ptr(t) ELSE nullptr

\* operator==
tagged_ptr_eq(a, b) ==
    a.tagged_address = b.tagged_address /\ tag(a) = tag(b)

\* operator!=
tagged_ptr_ne(a, b) ==
    a.tagged_address # b.tagged_address \/ tag(a) # tag(b)

\* dispatch_call<Func, Ts...>(func, ptr, index) with the types from T0 on
\* left: the type func is invoked with; the overload for one type ignores index
RECURSIVE dispatch_call(_, _)
dispatch_call(T0, index) ==
    IF T0 = number_of_types THEN T0
    ELSE IF index = 0 THEN T0
    ELSE dispatch_call(T0 + 1, index - 1)

\* call(func): the invocations of func, each with the type and the address
\* it was given; tag() - 1uz is computed in std::uint64_t
call(t) ==
    <<Object(ptr(t), dispatch_call(1, (tag(t) + UINTPTR_MAX) % (UINTPTR_MAX + 1)))>>

TpNames == {"my_shape", "my_shape2"}

\* an operation on the tagged_ptr objects and what it returned
TpLast(op, name, t, tg, p, casts, calls, eq, ne) ==
    [op |-> op, name |-> name, t |-> t, tag |-> tg, ptr |-> p, casts |-> casts,
     calls |-> calls, eq |-> eq, ne |-> ne]

TpNone(op, name) == TpLast(op, name, tagged_ptr_null, 0, nullptr, <<>>, <<>>, FALSE, FALSE)

\* my_shape = new T { ... } for a listed type T
TpAssignObject(name, x) ==
    /\ tagged' = [tagged EXCEPT ![name] = tagged_ptr_from(x)]
    /\ tp_last' = TpNone("assign", name)
    /\ UNCHANGED <<number_of_types, provider_vars, eq_vars, handle_vars, vec_vars>>

\* my_shape = nullptr
TpAssignNull(name) ==
    /\ tagged' = [tagged EXCEPT ![name] = tagged_ptr_null]
    /\ tp_last' = TpNone("assign_null", name)
    /\ UNCHANGED <<number_of_types, provider_vars, eq_vars, handle_vars, vec_vars>>

\* auto my_shape2 = my_shape, then my_shape == my_shape2 and my_shape != my_shape2
TpCopy(dst, src) ==
    /\ dst # src
    /\ tagged' = [tagged EXCEPT ![dst] = tagged[src]]
    /\ tp_last' = [TpNone("copy", dst) EXCEPT
                      !.eq = tagged_ptr_eq(tagged[src], tagged'[dst]),
                      !.ne = tagged_ptr_ne(tagged[src], tagged'[dst])]
    /\ UNCHANGED <<number_of_types, provider_vars, eq_vars, handle_vars, vec_vars>>

\* my_shape == my_shape2 and my_shape != my_shape2
TpCompare ==
    /\ tp_last' = [TpNone("compare", "my_shape") EXCEPT
                      !.eq = tagged_ptr_eq(tagged["my_shape"], tagged["my_shape2"]),
                      !.ne = tagged_ptr_ne(tagged["my_shape"], tagged["my_shape2"])]
    /\ UNCHANGED <<tagged, number_of_types, provider_vars, eq_vars, handle_vars, vec_vars>>

\* tag(), ptr(), cast<U>() for every listed U, and call(func) on a tagged_ptr
\* that points to an object
TpObserve(name) ==
    LET t == tagged[name]
    IN /\ t.from # NoObject
       /\ tp_last' = TpLast("observe", name, t, tag(t), ptr(t),
                            [U \in ListedTypes |-> cast(t, U)], call(t), FALSE, FALSE)
       /\ UNCHANGED <<tagged, number_of_types, provider_vars, eq_vars, handle_vars, vec_vars>>

InitTagged ==
    /\ ProviderIdle
    /\ EqIdle /\ HandleIdle /\ VecIdle
    /\ number_of_types \in 1..MaxTypes
    /\ tagged = [name \in TpNames |-> tagged_ptr_null]
    /\ tp_last = TpNone("construct", "my_shape")

NextTagged ==
    \/ \E name \in TpNames, x \in Objects : TpAssignObject(name, x)
    \/ \E name \in TpNames : TpAssignNull(name)
    \/ \E dst, src \in TpNames : TpCopy(dst, src)
    \/ TpCompare
    \/ \E name \in TpNames : TpObserve(name)

SpecTagged == InitTagged /\ [][NextTagged]_vars

(***************************************************************************)
(* vector<char> objects with their constructors, assignments and           *)
(* destructor (include/ZSTL/vector.hpp).  Each vector holds a handle on    *)
(* one of two providers; a buffer remembers the provider and the element   *)
(* count it was allocated with, the state of each of its slots, and every  *)
(* deallocate request made for it.  The providers here always have room:   *)
(* allocate_object returns a new address.                                  *)
(***************************************************************************)
\* the memory_resource objects the handles refer to
Resources == {"new_delete_resource", "pool"}

\* value_type {} and construct(ptr + i) without arguments, for char
value_type_default == "0"

\* what a read of a slot that holds no element gives
indeterminate == "?"

\* the values of an initializer list or an iterator range
InitLists == {<<>>, <<"a">>, <<"b", "a">>}

\* a buffer of n elements obtained from the provider r
Buffer(r, n) ==
    [r |-> r, n |-> n, cells |-> [i \in 0..(n - 1) |-> raw], frees |-> <<>>]

\* the vectors and the buffers while an operation runs, and what it did
\* that the element type's lifetime rules forbid
Running(vs, bs) == [vectors |-> vs, buffers |-> bs, misuse |-> {}]

Misuse(st, what) == [st EXCEPT !.misuse = @ \cup {what}]

\* p + i is a slot of a buffer that is allocated
InBuffer(st, p, i) ==
    /\ p \in 1..Len(st.buffers)
    /\ st.buffers[p].frees = <<>>
    /\ i \in 0..(st.buffers[p].n - 1)

\* allocate_object<value_type>(n): the address returned
allocate_object_returns(st, n) ==
    IF SkipsStrategy(allocate_object_bytes(value_type, n)) THEN nullptr
    ELSE Len(st.buffers) + 1

\* allocate_object<value_type>(n) on a handle that refers to r
allocate_object(st, r, n) ==
    IF allocate_object_returns(st, n) = nullptr THEN st
    ELSE [st EXCEPT !.buffers = Append(@, Buffer(r, n))]

\* deallocate_object(p, n) on a handle that refers to r
deallocate_object(st, r, p, n) ==
    IF ~ReachesStrategy(p) THEN st
    ELSE [st EXCEPT !.buffers[p].frees = Append(@, [r |-> r, n |-> n])]

\* alloc.construct(p + i, value): ::new ((void *)p) U(value)
construct_at(st, p, i, value) ==
    IF ~InBuffer(st, p, i) THEN Misuse(st, "outside")
    ELSE [(IF st.buffers[p].cells[i] # raw THEN Misuse(st, "constructed_twice") ELSE st)
            EXCEPT !.buffers[p].cells[i] = value]

\* alloc.destroy(p + i): p->~U()
destroy_at(st, p, i) ==
    IF ~InBuffer(st, p, i) THEN Misuse(st, "outside")
    ELSE [(IF st.buffers[p].cells[i] = raw THEN Misuse(st, "destroyed_raw") ELSE st)
            EXCEPT !.buffers[p].cells[i] = raw]

\* *iter = value: the assignment operator of the element at p + i
assign_at(st, p, i, value) ==
    IF ~InBuffer(st, p, i) THEN Misuse(st, "outside")
    ELSE IF st.buffers[p].cells[i] = raw THEN Misuse(st, "assigned_raw")
    ELSE [st EXCEPT !.buffers[p].cells[i] = value]

\* operator[]: the value read from p + i
read_at(st, p, i) ==
    IF InBuffer(st, p, i) /\ st.buffers[p].cells[i] # raw
    THEN st.buffers[p].cells[i]
    ELSE indeterminate

\* one statement on an element
ElementStep(kind, p, i, value) == [kind |-> kind, p |-> p, i |-> i, value |-> value]

ApplyStep(st, s) ==
    CASE s.kind = "construct" -> construct_at(st, s.p, s.i, s.value)
      [] s.kind = "destroy" -> destroy_at(st, s.p, s.i)
      [] OTHER -> assign_at(st, s.p, s.i, s.value)

RECURSIVE RunElementSteps(_, _, _)
RunElementSteps(st, steps, k) ==
    IF k > Len(steps) THEN st
    ELSE RunElementSteps(ApplyStep(st, steps[k]), steps, k + 1)

\* for (i = from; i < to; ++i) construct(p + i, values[i - from + 1])
ConstructRange(st, p, from, to, values) ==
    RunElementSteps(st,
        [j \in 1..(IF to > from THEN to - from ELSE 0) |->
            ElementStep("construct", p, from + j - 1, values[j])], 1)

\* for (i = from; i < to; ++i) destroy(p + i)
DestroyRange(st, p, from, to) ==
    RunElementSteps(st,
        [j \in 1..(IF to > from THEN to - from ELSE 0) |->
            ElementStep("destroy", p, from + j - 1, raw)], 1)

\* count copies of value
Repeat(count, value) == [j \in 1..count |-> value]

\* other[0], ..., other[size() - 1] as the vector o gives them
ElementsOf(st, o) ==
    [j \in 1..st.vectors[o].nStored |-> read_at(st, st.vectors[o].ptr, j - 1)]

\* the members of the vector v after the statements so far
SetMembers(st, v, ptr_, nAlloc_, nStored_) ==
    [st EXCEPT !.vectors[v].ptr = ptr_, !.vectors[v].nAlloc = nAlloc_,
               !.vectors[v].nStored = nStored_]

SetStored(st, v, nStored_) == [st EXCEPT !.vectors[v].nStored = nStored_]

\* the member initializers of a constructor: alloc(alloc), ptr { nullptr },
\* nAlloc { 0uz }, nStored { 0uz }
Constructed(st, v, alloc) ==
    [st EXCEPT !.vectors[v] = VectorObject("alive", alloc, nullptr, 0, 0)]

\* reserve(n)
vector_reserve(st, v, n) ==
    LET me == st.vectors[v]
        ra == allocate_object_returns(st, n)
        moves == [j \in 1..(2 * me.nStored) |->
                    IF j % 2 = 1
                    THEN ElementStep("construct", ra, (j - 1) \div 2,
                                     read_at(st, me.ptr, (j - 1) \div 2))
                    ELSE ElementStep("destroy", me.ptr, (j - 2) \div 2, raw)]
        moved == RunElementSteps(allocate_object(st, me.alloc, n), moves, 1)
        freed == deallocate_object(moved, me.alloc, me.ptr, me.nAlloc)
    IN IF n <= me.nAlloc THEN st
       ELSE SetMembers(freed, v, ra, n, me.nStored)

\* clear()
vector_clear(st, v) ==
    LET me == st.vectors[v]
    IN SetStored(DestroyRange(st, me.ptr, 0, me.nStored), v, 0)

\* push_back(value), emplace_back(args)
vector_push_back(st, v, value) ==
    LET grown == IF st.vectors[v].nAlloc = st.vectors[v].nStored
                 THEN vector_reserve(st, v, push_back_growth(st.vectors[v].nAlloc))
                 ELSE st
        me == grown.vectors[v]
    IN SetStored(construct_at(grown, me.ptr, me.nStored, value), v, me.nStored + 1)

RECURSIVE PushBackAll(_, _, _, _)
PushBackAll(st, v, values, k) ==
    IF k > Len(values) THEN st
    ELSE PushBackAll(vector_push_back(st, v, values[k]), v, values, k + 1)

\* pop_back()
vector_pop_back(st, v) ==
    LET me == st.vectors[v]
    IN SetStored(destroy_at(st, me.ptr, me.nStored - 1), v, me.nStored - 1)

\* reserve(n), then construct(ptr + i, values[i]) for every i, then
\* nStored = n: the body of the constructors and of the copy assignment
FillFrom(st, v, values) ==
    LET n == Len(values)
        reserved == vector_reserve(st, v, n)
        filled == ConstructRange(reserved, reserved.vectors[v].ptr, 0, n, values)
    IN SetStored(filled, v, n)

\* vector(count, value, alloc)
vector_count(st, v, count, value, alloc) ==
    FillFrom(Constructed(st, v, alloc), v, Repeat(count, value))

\* vector(first, last, alloc), vector(init, alloc)
vector_range(st, v, init, alloc) == FillFrom(Constructed(st, v, alloc), v, init)

\* vector(const vector &other)
vector_copy(st, v, o) ==
    LET other == st.vectors[o]
        p == allocate_object_returns(st, other.nStored)
        made == [st EXCEPT !.vectors[v] =
                    VectorObject("alive", other.alloc, nullptr, other.nAlloc,
                                 other.nStored)]
    IN IF other.nStored # 0
       THEN ConstructRange(
                SetMembers(allocate_object(made, other.alloc, other.nStored), v, p,
                           other.nAlloc, other.nStored),
                p, 0, other.nStored, ElementsOf(st, o))
       ELSE made

\* vector(const vector &other, const allocator_type &alloc)
vector_copy_alloc(st, v, o, alloc) ==
    FillFrom(Constructed(st, v, alloc), v, ElementsOf(st, o))

\* the buffer of other is taken over: ptr, nAlloc and nStored are copied and
\* other's are reset
TakeOver(st, v, o) ==
    LET other == st.vectors[o]
    IN SetMembers(SetMembers(st, v, other.ptr, other.nAlloc, other.nStored),
                  o, nullptr, 0, 0)

\* vector(vector &&other)
vector_move(st, v, o) == TakeOver(Constructed(st, v, st.vectors[o].alloc), v, o)

\* vector(vector &&other, const allocator_type &alloc)
vector_move_alloc(st, v, o, alloc) == TakeOver(Constructed(st, v, alloc), v, o)

\* operator=(const vector &other), this and other two objects
operator_assign_copy(st, v, o) == FillFrom(vector_clear(st, v), v, ElementsOf(st, o))

\* operator=(vector &&other), this and other two objects
operator_assign_move(st, v, o) ==
    LET me == st.vectors[v]
        other == st.vectors[o]
    IN IF me.alloc = other.alloc
       THEN SetMembers(SetMembers(st, v, other.ptr, other.nAlloc, other.nStored),
                       o, me.ptr, me.nAlloc, me.nStored)
       ELSE FillFrom(vector_clear(st, v), v, ElementsOf(st, o))

\* operator=(std::initializer_list<value_type> &init)
operator_assign_list(st, v, init) ==
    LET cleared == vector_clear(vector_reserve(st, v, Len(init)), v)
    IN RunElementSteps(cleared,
           [j \in 1..Len(init) |->
               ElementStep("assign", cleared.vectors[v].ptr, j - 1, init[j])], 1)

\* assign(count, value)
assign_count(st, v, count, value) ==
    PushBackAll(vector_reserve(vector_clear(st, v), v, count), v,
                Repeat(count, value), 1)

\* assign(first, last), assign(init)
assign_range(st, v, init) ==
    LET n == Len(init)
        reserved == SetStored(vector_reserve(vector_clear(st, v), v, n), v, n)
    IN ConstructRange(reserved, reserved.vectors[v].ptr, 0, n, init)

\* ~vector()
vector_destructor(st, v) ==
    LET cleared == vector_clear(st, v)
        me == cleared.vectors[v]
    IN [deallocate_object(cleared, me.alloc, me.ptr, me.nAlloc)
          EXCEPT !.vectors[v].state = "destroyed"]

\* resize(count)
vector_resize(st, v, count) ==
    LET me == st.vectors[v]
    IN IF count < me.nStored
       THEN LET destroyed == DestroyRange(st, me.ptr, count, me.nStored)
            IN IF count = 0
               THEN SetMembers(deallocate_object(destroyed, me.alloc, me.ptr, me.nAlloc),
                               v, nullptr, 0, count)
               ELSE SetStored(destroyed, v, count)
       ELSE IF count > me.nStored
       THEN LET reserved == vector_reserve(st, v, count)
            IN SetStored(ConstructRange(reserved, reserved.vectors[v].ptr, me.nStored,
                                        count, Repeat(count - me.nStored,
                                                      value_type_default)),
                         v, count)
       ELSE SetStored(st, v, count)

\* resize(count, value)
vector_resize_value(st, v, count, value) ==
    LET me == st.vectors[v]
    IN IF count < me.nStored
       THEN SetStored(DestroyRange(st, me.ptr, count, me.nStored), v, count)
       ELSE IF count > me.nStored
       THEN LET reserved == vector_reserve(st, v, count)
            IN \* construct(ptr + nStored, value), count - nStored times
               SetStored(RunElementSteps(reserved,
                             [j \in 1..(count - me.nStored) |->
                                 ElementStep("construct", reserved.vectors[v].ptr,
                                             me.nStored, value)], 1),
                         v, count)
       ELSE SetStored(st, v, count)

\* swap(other)
vector_swap(st, v, o) ==
    [st EXCEPT !.vectors[v] = st.vectors[o], !.vectors[o] = st.vectors[v]]

\* what an operation on the vectors leaves alone
vectors_frame ==
    <<build, heap, arena_vars, last, up_calls, handed, init_size, fresh_run,
      bad_free, variant, eq_vars, handle_vars, v_ptr, nAlloc, nStored, v_log,
      v_last, content_vars, tagged_vars>>

Here == Running(vectors, buffers)

Alive(v) == vectors[v].state = "alive"
Unborn(v) == vectors[v].state = "none"

\* the operation op ran on the vector v and left st; a store or a destroy
\* outside every allocated buffer is undefined: the process faults or goes on
VectorsDo(op, v, count, value, st) ==
    /\ status = "alive"
    /\ nops < MaxVectorOps
    /\ nops' = nops + 1
    /\ vectors' = st.vectors
    /\ buffers' = st.buffers
    /\ vo_last' = VectorOp(op, v, count, value, vectors[v].nStored, st.misuse)
    /\ status' \in (IF "outside" \in st.misuse THEN {"crashed", "alive"} ELSE {"alive"})
    /\ UNCHANGED vectors_frame

InitVectors == ProviderIdle /\ OthersIdle

ElemCounts == 0..MaxElems

NextVectors ==
    \/ \E v \in VecNames, alloc \in Resources :
          Unborn(v) /\ VectorsDo("vector", v, 0, raw, Constructed(Here, v, alloc))
    \/ \E v \in VecNames, count \in ElemCounts, value \in Values, alloc \in Resources :
          /\ Unborn(v)
          /\ VectorsDo("vector_count", v, count, value,
                       vector_count(Here, v, count, value, alloc))
    \/ \E v \in VecNames, init \in InitLists, alloc \in Resources :
          /\ Unborn(v)
          /\ VectorsDo("vector_range", v, Len(init), raw, vector_range(Here, v, init, alloc))
    \/ \E v, o \in VecNames :
          /\ Unborn(v) /\ Alive(o)
          /\ VectorsDo("vector_copy", v, 0, raw, vector_copy(Here, v, o))
    \/ \E v, o \in VecNames, alloc \in Resources :
          /\ Unborn(v) /\ Alive(o)
          /\ VectorsDo("vector_copy_alloc", v, 0, raw, vector_copy_alloc(Here, v, o, alloc))
    \/ \E v, o \in VecNames :
          /\ Unborn(v) /\ Alive(o)
          /\ VectorsDo("vector_move", v, 0, raw, vector_move(Here, v, o))
    \/ \E v, o \in VecNames, alloc \in Resources :
          /\ Unborn(v) /\ Alive(o)
          /\ VectorsDo("vector_move_alloc", v, 0, raw, vector_move_alloc(Here, v, o, alloc))
    \/ \E v, o \in VecNames :
          /\ v # o /\ Alive(v) /\ Alive(o)
          /\ VectorsDo("operator_assign_copy", v, 0, raw, operator_assign_copy(Here, v, o))
    \/ \E v, o \in VecNames :
          /\ v # o /\ Alive(v) /\ Alive(o)
          /\ VectorsDo("operator_assign_move", v, 0, raw, operator_assign_move(Here, v, o))
    \/ \E v \in VecNames, init \in InitLists :
          /\ Alive(v)
          /\ VectorsDo("operator_assign_list", v, Len(init), raw,
                       operator_assign_list(Here, v, init))
    \/ \E v \in VecNames, count \in ElemCounts, value \in Values :
          /\ Alive(v)
          /\ VectorsDo("assign_count", v, count, value, assign_count(Here, v, count, value))
    \/ \E v \in VecNames, init \in InitLists :
          /\ Alive(v)
          /\ VectorsDo("assign_range", v, Len(init), raw, assign_range(Here, v, init))
    \/ \E v \in VecNames :
          Alive(v) /\ VectorsDo("destructor", v, 0, raw, vector_destructor(Here, v))
    \/ \E v \in VecNames, value \in Values, op \in {"push_back", "emplace_back"} :
          Alive(v) /\ VectorsDo(op, v, 0, value, vector_push_back(Here, v, value))
    \/ \E v \in VecNames :
          /\ Alive(v) /\ vectors[v].nStored > 0
          /\ VectorsDo("pop_back", v, 0, raw, vector_pop_back(Here, v))
    \/ \E v \in VecNames, n \in ElemCounts :
          Alive(v) /\ VectorsDo("reserve", v, n, raw, vector_reserve(Here, v, n))
    \/ \E v \in VecNames, count \in ElemCounts :
          Alive(v) /\ VectorsDo("resize", v, count, raw, vector_resize(Here, v, count))
    \/ \E v \in VecNames, count \in ElemCounts, value \in Values :
          /\ Alive(v)
          /\ VectorsDo("resize_value", v, count, value,
                       vector_resize_value(Here, v, count, value))
    \/ \E v \in VecNames :
          Alive(v) /\ VectorsDo("clear", v, 0, raw, vector_clear(Here, v))
    \/ \E v, o \in VecNames :
          /\ v # o /\ Alive(v) /\ Alive(o)
          /\ VectorsDo("swap", v, 0, raw, vector_swap(Here, v, o))

SpecVectors == InitVectors /\ [][NextVectors]_vars

(***************************************************************************)
(* Vocabulary of the properties.                                           *)
(***************************************************************************)
BlockEntries(h) == {x \in h : x.tag = "block"}

\* the byte range [a, a + n) lies in the payload of the upstream allocation x
InPayload(a, n, x) == x.addr + sizeof_block <= a /\ a + n <= x.addr + x.size

Disjoint(a, n, b, m) == a + n <= b \/ b + m <= a

\* the upstream allocate call of the last public call failed
UpstreamFailed(calls) ==
    \E i \in 1..Len(calls) : calls[i].op = "allocate" /\ calls[i].addr = nullptr

SameCall(c, op, a, n) == c.op = op /\ c.addr = a /\ c.size = n

(***************************************************************************)
(* C1: every address allocate returns for bytes > 0 and a power-of-two     *)
(* alignment is a multiple of that alignment, on the System Provider and   *)
(* on both paths of the Arena Provider.                                    *)
(***************************************************************************)
C1_AddressAligned ==
    (/\ last.op \in {"allocate", "sys_allocate"}
     /\ last.bytes > 0
     /\ last.ret # nullptr) => last.ret % last.align = 0

(***************************************************************************)
(* C2: an arena allocate of more than block_size bytes makes exactly one   *)
(* upstream allocate call of exactly those bytes and links no block; a     *)
(* later deallocate of the returned address with the same bytes makes      *)
(* exactly one upstream deallocate call for that address and size.         *)
(***************************************************************************)
C2_AllocateStep ==
    (last'.op = "allocate" /\ last'.bytes > block_size) =>
        /\ Len(up_calls') = 1
        /\ SameCall(up_calls'[1], "allocate", last'.ret, last'.bytes)
        /\ up_calls'[1].align = last'.align
        /\ block_list' = block_list

C2_DeallocateStep ==
    (/\ last'.op = "deallocate"
     /\ \E i \in 1..Len(handed) :
            /\ handed[i].kind = "standalone"
            /\ Matches(handed[i], last'.p, last'.bytes)) =>
        /\ Len(up_calls') = 1
        /\ SameCall(up_calls'[1], "deallocate", last'.p, last'.bytes)

C2_Passthrough == [][C2_AllocateStep /\ C2_DeallocateStep]_vars

(***************************************************************************)
(* C3: from a fresh arena, N successive allocate(s, alignment) calls cause *)
(* exactly one upstream block allocation, of at least init_size payload    *)
(* bytes, and return strictly increasing addresses whose ranges are        *)
(* pairwise disjoint and inside that block.  The claim asks N * s <=       *)
(* init_size; the code needs room for the padding between the requests.    *)
(***************************************************************************)
\* every call so far was allocate(s, alignment), served from the chain
UniformRun(s, alignment) ==
    /\ fresh_run
    /\ status = "alive"
    /\ handed # <<>>
    /\ \A i \in 1..Len(handed) :
          /\ handed[i].bytes = s
          /\ handed[i].align = alignment
          /\ handed[i].kind = "chained"

OneBlockLayout ==
    /\ Cardinality(BlockEntries(heap)) = 1
    /\ Cardinality(heap) = 1
    /\ \A x \in heap :
          /\ x.size >= sizeof_block + init_size
          /\ \A i \in 1..Len(handed) : InPayload(handed[i].addr, handed[i].bytes, x)
    /\ \A i, j \in 1..Len(handed) :
          i < j => /\ handed[i].addr < handed[j].addr
                   /\ Disjoint(handed[i].addr, handed[i].bytes,
                               handed[j].addr, handed[j].bytes)

\* the claim as stated
C3_AsStated ==
    \A s \in Sizes, alignment \in Aligns :
        (UniformRun(s, alignment) /\ Len(handed) * s <= init_size) => OneBlockLayout

\* amended: the N requests fit with their padding
C3_OneBlock ==
    \A s \in Sizes, alignment \in Aligns :
        (/\ UniformRun(s, alignment)
         /\ (Len(handed) - 1) * RoundUp(s, alignment) + s <= init_size) => OneBlockLayout

C3_Witness ==
    /\ fresh_run
    /\ status = "alive"
    /\ Len(handed) >= 2
    /\ \A i \in 1..Len(handed) :
          /\ handed[i].kind = "chained"
          /\ handed[i].bytes = handed[1].bytes
          /\ handed[i].align = handed[1].align
    /\ (Len(handed) - 1) * RoundUp(handed[1].bytes, handed[1].align)
          + handed[1].bytes <= init_size

(***************************************************************************)
(* C4: release() makes exactly one upstream deallocate per block of        *)
(* block_list, head to tail, each of sizeof(block) + the block's payload   *)
(* size, and leaves block_list empty and current null.                     *)
(***************************************************************************)
C4_ReleaseStep ==
    last'.op = "release" =>
        /\ Len(up_calls') = Len(block_list)
        /\ \A i \in 1..Len(block_list) :
              SameCall(up_calls'[i], "deallocate", block_list[i].b,
                       sizeof_block + block_list[i].size)
        /\ block_list' = <<>>
        /\ current'.b = nullptr

C4_Release == [][C4_ReleaseStep]_vars

C4_Witness ==
    /\ last.op = "release"
    /\ Len(up_calls) >= 2
    /\ up_calls[1].size # up_calls[2].size

(***************************************************************************)
(* C5: once the arena is destroyed, every block it obtained from upstream  *)
(* has been returned exactly once: none is still held by the platform,     *)
(* none was returned twice; while it lives, the blocks it holds are the    *)
(* blocks of block_list.                                                   *)
(***************************************************************************)
C5_BlocksReturnedOnce ==
    /\ ~bad_free
    /\ {x.addr : x \in BlockEntries(heap)} = {block_list[i].b : i \in 1..Len(block_list)}
    /\ Cardinality(BlockEntries(heap)) = Len(block_list)
    /\ status = "destroyed" => BlockEntries(heap) = {}

\* two blocks were acquired, one went back at a release, the destructor
\* returned the other
C5_Witness ==
    /\ status = "destroyed"
    /\ Len(up_calls) = 1
    /\ block_size = 4 * init_size
    /\ heap = {}

(***************************************************************************)
(* C6: when upstream fails an allocation the arena asked for, allocate     *)
(* reports the failure after that single attempt: no address is returned,  *)
(* no block header is written, no block is linked.                         *)
(***************************************************************************)
C6_FailureStep ==
    (last'.op = "allocate" /\ UpstreamFailed(up_calls')) =>
        /\ Len(up_calls') = 1
        /\ last'.ret = nullptr
        /\ status' = "alive"
        /\ block_list' = block_list
        /\ heap' = heap

C6_FailurePropagates == [][C6_FailureStep]_vars

(***************************************************************************)
(* C7: when the platform allocator cannot satisfy a request of bytes > 0,  *)
(* System Provider allocate signals the failure; it does not return null   *)
(* as if the request had succeeded.                                        *)
(***************************************************************************)
C7_FailureSignalled ==
    (last.op = "sys_allocate" /\ last.bytes > 0 /\ last.ret = nullptr) => last.threw

(***************************************************************************)
(* C8: an arena deallocate with bytes <= block_size makes no upstream call *)
(* and leaves block_list, current and current_pos unchanged, whatever p.   *)
(***************************************************************************)
C8_SmallDeallocateStep ==
    (last'.op = "deallocate" /\ last'.bytes <= block_size) =>
        /\ up_calls' = <<>>
        /\ heap' = heap
        /\ UNCHANGED <<block_list, current, current_pos, block_size>>

C8_SmallDeallocateNoOp == [][C8_SmallDeallocateStep]_vars

C8_Witness ==
    /\ last.op = "deallocate"
    /\ last.bytes <= block_size
    /\ last.bytes > 0
    /\ \E i \in 1..Len(block_list) :
          /\ block_list[i].ptr <= last.p
          /\ last.p < block_list[i].ptr + block_list[i].size

(***************************************************************************)
(* C9: after release(), an allocate of 0 < bytes <= block_size acquires a  *)
(* new block and returns an address whose range lies in that block's       *)
(* payload, the old offset not carried over; no address handed out lies in *)
(* a block already returned to upstream.                                   *)
(***************************************************************************)
C9_AfterReleaseStep ==
    (/\ last.op = "release"
     /\ last'.op = "allocate"
     /\ 0 < last'.bytes
     /\ last'.bytes <= block_size
     /\ status' = "alive") =>
        /\ Len(up_calls') = 1
        /\ up_calls'[1].op = "allocate"
        /\ Len(block_list') = 1
        /\ block_list'[1].b = up_calls'[1].addr
        /\ InPayload(last'.ret, last'.bytes, up_calls'[1])
        /\ current_pos' = last'.bytes
        /\ last'.ret = block_list'[1].ptr

C9_NoFreedAddress ==
    \A i \in 1..Len(handed) :
        handed[i].kind = "chained" =>
            \E x \in BlockEntries(heap) :
                /\ x.addr = handed[i].blk
                /\ InPayload(handed[i].addr, handed[i].bytes, x)

C9_ReallocateAfterRelease == [][C9_AfterReleaseStep]_vars /\ []C9_NoFreedAddress

C9_Witness ==
    /\ status = "alive"
    /\ last.op = "allocate"
    /\ nops = 3
    /\ Len(block_list) = 1
    /\ Len(up_calls) = 1
    /\ block_size = 4 * init_size
    /\ handed # <<>>

(***************************************************************************)
(* C10: release() on an arena whose block_list is empty, a never-used      *)
(* arena or one just released, makes no upstream call, changes no state    *)
(* and does not fault.                                                     *)
(***************************************************************************)
C10_EmptyReleaseStep ==
    (last'.op = "release" /\ (block_list = <<>> \/ last.op = "release")) =>
        /\ up_calls' = <<>>
        /\ heap' = heap
        /\ status' = "alive"
        /\ UNCHANGED <<block_list, current, current_pos, block_size, handed, bad_free>>

C10_ReleaseIdempotent == [][C10_EmptyReleaseStep]_vars

C10_Witness ==
    /\ last.op = "release"
    /\ up_calls = <<>>
    /\ block_size > init_size
    /\ status = "alive"

(***************************************************************************)
(* C12: on every provider variant, allocate(0, alignment) returns nullptr  *)
(* without reaching the strategy: no upstream or platform call, and on an  *)
(* arena no block is acquired and current_pos is unchanged.                *)
(***************************************************************************)
AllocateOps == {"allocate", "sys_allocate", "user_allocate"}
DeallocateOps == {"deallocate", "sys_deallocate", "user_deallocate"}

C12_ZeroStep ==
    (last'.op \in AllocateOps /\ last'.bytes = 0) =>
        /\ last'.ret = nullptr
        /\ up_calls' = <<>>
        /\ heap' = heap
        /\ status' = status
        /\ UNCHANGED <<arena_vars, handed, bad_free>>

C12_ZeroAllocate == [][C12_ZeroStep]_vars

\* allocate(0, 16) on an arena that holds a block
C12_Witness ==
    /\ variant = "arena"
    /\ last.op = "allocate"
    /\ last.bytes = 0
    /\ last.align = Pow2(MaxAlignLog)
    /\ current.b # nullptr

(***************************************************************************)
(* C13: on every provider variant, deallocate(nullptr, bytes, alignment)   *)
(* does not reach the strategy: no upstream call, also when bytes exceeds  *)
(* the arena's block_size, and the provider's state is unchanged.          *)
(***************************************************************************)
C13_NullStep ==
    (last'.op \in DeallocateOps /\ last'.p = nullptr) =>
        /\ up_calls' = <<>>
        /\ heap' = heap
        /\ status' = status
        /\ UNCHANGED <<arena_vars, handed, bad_free>>

C13_NullDeallocate == [][C13_NullStep]_vars

\* deallocate(nullptr, bytes) with bytes above the arena's threshold
C13_Witness ==
    /\ variant = "arena"
    /\ last.op = "deallocate"
    /\ last.p = nullptr
    /\ last.bytes > block_size
    /\ heap # {}

(***************************************************************************)
(* C14: for System and Arena Providers, is_equal (and operator==) is true  *)
(* exactly for the same instance: reflexive, symmetric, false for two      *)
(* distinct instances of one type whatever their members hold, and not     *)
(* changed by a change of a provider's members.                            *)
(***************************************************************************)
Concrete == {i \in DOMAIN instances : instances[i].kind \in {"system", "arena"}}

C14_Identity ==
    \A a, b \in Concrete :
        /\ is_equal(a, b) <=> (a = b)
        /\ memory_resource_eq(a, b) <=> (a = b)
        /\ is_equal(a, a)
        /\ is_equal(a, b) <=> is_equal(b, a)

C14_StateIndependent ==
    \A a, b \in Concrete : is_equal(a, b)' = is_equal(a, b)

C14_IdentityEquality == []C14_Identity /\ [][C14_StateIndependent]_vars

\* two distinct arenas whose members are the same, each holding a block
C14_Witness ==
    \E a, b \in Concrete :
        /\ a # b
        /\ instances[a].kind = "arena"
        /\ instances[a] = instances[b]
        /\ instances[a].blocks > 0

(***************************************************************************)
(* C15: two handles, of any target types, compare equal exactly when the   *)
(* providers they reference are equal by is_equal, whatever the provider;  *)
(* a copy of a handle references the provider of its source and compares   *)
(* equal to it.                                                            *)
(***************************************************************************)
C15_HandleEquality ==
    /\ \A j, k \in DOMAIN handle_list :
          polymorphic_allocator_eq(handle_list[j], handle_list[k])
              <=> is_equal(resource(handle_list[j]), resource(handle_list[k]))
    /\ \A k \in DOMAIN handle_list :
          handle_list[k].how = "copy" =>
              /\ resource(handle_list[k]) = resource(handle_list[handle_list[k].src])
              /\ polymorphic_allocator_eq(handle_list[k], handle_list[handle_list[k].src])

(***************************************************************************)
(* C16: however many handles are default-constructed, at most one default  *)
(* System Provider exists, every default-constructed handle references it, *)
(* any two of them compare equal.                                          *)
(***************************************************************************)
DefaultProviders ==
    {i \in DOMAIN instances : instances[i].origin = "new_delete_resource"}

C16_OneDefaultProvider ==
    /\ Cardinality(DefaultProviders) <= 1
    /\ \A j, k \in DOMAIN handle_list :
          (handle_list[j].how = "default" /\ handle_list[k].how = "default") =>
              /\ resource(handle_list[j]) = resource(handle_list[k])
              /\ polymorphic_allocator_eq(handle_list[j], handle_list[k])

(***************************************************************************)
(* C11: allocate_object<V>(count) ends with the size-overflow error        *)
(* exactly when count * sizeof(V) exceeds SIZE_MAX, and then no call is    *)
(* made on the provider; otherwise it makes one provider allocate call for *)
(* exactly count * sizeof(V) bytes at alignof(V).  The overflow error is   *)
(* not how an allocation failure ends.                                     *)
(***************************************************************************)
ProviderCalls(log) == SelectSeq(log, LAMBDA e : e.ev \in {"allocate", "deallocate"})

C11_AllocateObjectStep ==
    h_last'.op = "allocate_object" =>
        LET U == h_last'.U
            n == h_last'.n
        IN IF n * U.size > SIZE_MAX
           THEN /\ h_last'.threw = "bad_array_new_length"
                /\ h_log' = <<>>
                /\ heap' = heap
           ELSE /\ h_last'.threw = "none"
                /\ h_log' = <<Ev("allocate", h_last'.ret, n * U.size, U.align, FALSE)>>

C11_OverflowChecked == [][C11_AllocateObjectStep]_vars

\* the first count past the limit of a type wider than one byte, after an
\* allocation that succeeded
C11_Witness ==
    /\ h_last.op = "allocate_object"
    /\ h_last.threw = "bad_array_new_length"
    /\ h_last.U.size > 1
    /\ h_last.n = (SIZE_MAX \div h_last.U.size) + 1
    /\ slots # {}

(***************************************************************************)
(* C17: delete_object(p) runs the object's destructor first and then makes *)
(* exactly one provider deallocate call, for p with sizeof(V) bytes at     *)
(* alignof(V); the provider is not asked to deallocate p while the object  *)
(* at p is constructed.                                                    *)
(***************************************************************************)
C17_DeleteObjectStep ==
    h_last'.op = "delete_object" =>
        LET U == h_last'.U
            q == h_last'.p
        IN /\ h_log' = <<Ev("destroy", q, U.size, U.align, TRUE),
                         Ev("deallocate", q, U.size, U.align, FALSE)>>
           /\ ~(\E x \in heap' : x.addr = q)
           /\ ~(\E x \in slots' : x.addr = q)

C17_DestroyThenDeallocate == [][C17_DeleteObjectStep]_vars

\* an object made by new_object was deleted while another one lives on
C17_Witness ==
    /\ h_last.op = "delete_object"
    /\ h_last.U.size > 1
    /\ SlotsIn("constructed") # {}

(***************************************************************************)
(* C18: new_object<V>(args) makes exactly one provider allocate call, for  *)
(* sizeof(V) bytes at alignof(V), and then constructs at the returned      *)
(* address; when the constructor throws, the caller gets the exception, no *)
(* deallocate call is made and the memory stays allocated.                 *)
(***************************************************************************)
C18_NewObjectStep ==
    h_last'.op = "new_object" =>
        LET U == h_last'.U
        IN /\ Len(h_log') = 2
           /\ h_log'[1].ev = "allocate"
           /\ h_log'[1].bytes = U.size
           /\ h_log'[1].align = U.align
           /\ h_log'[2].ev = "construct"
           /\ h_log'[2].p = h_log'[1].p
           /\ h_last'.threw = "ctor" =>
                 /\ h_last'.ret = nullptr
                 /\ \E x \in heap' : x.addr = h_log'[1].p /\ x.size = U.size
                 /\ heap \subseteq heap'

C18_NewObjectLeaksOnThrow == [][C18_NewObjectStep]_vars

\* the constructor threw: the storage is held by the provider, no object in it
C18_Witness ==
    /\ h_last.op = "new_object"
    /\ h_last.threw = "ctor"
    /\ \E x \in SlotsIn("raw") : x.addr = h_last.p
    /\ \E x \in heap : x.addr = h_last.p
    /\ Cardinality(heap) >= 2

(***************************************************************************)
(* C19: construct and destroy make no call on the provider; after destroy  *)
(* the storage holds no object and is still allocated, the object's        *)
(* resources were released once, and a construct there builds an object    *)
(* again.                                                                  *)
(***************************************************************************)
C19_NoProviderCall ==
    h_last'.op \in {"construct", "destroy"} =>
        /\ ProviderCalls(h_log') = <<>>
        /\ heap' = heap

C19_DestroyStep ==
    h_last'.op = "destroy" =>
        \E x \in slots' :
            /\ x.addr = h_last'.p
            /\ x.state = "raw"
            /\ x.torn = 1
            /\ \E y \in heap' : y.addr = x.addr

C19_ConstructAgainStep ==
    (/\ h_last.op = "destroy"
     /\ h_last'.op = "construct"
     /\ h_last'.p = h_last.p
     /\ h_last'.threw = "none") =>
        \E x \in slots' :
            /\ x.addr = h_last'.p
            /\ x.state = "constructed"
            /\ x.torn = 0

C19_ReleasedOnce == \A x \in slots : x.torn <= 1 /\ (x.state = "constructed" => x.torn = 0)

C19_ConstructDestroyRoundTrip ==
    /\ [][C19_NoProviderCall /\ C19_DestroyStep /\ C19_ConstructAgainStep]_vars
    /\ []C19_ReleasedOnce

\* storage built by construct, torn down by destroy
C19_Witness ==
    /\ h_last.op = "destroy"
    /\ nops = MaxOps
    /\ h_log = <<Ev("destroy", h_last.p, h_last.U.size, h_last.U.align, TRUE)>>
    /\ \E x \in SlotsIn("raw") : x.addr = h_last.p /\ x.torn = 1
    /\ \E y \in heap : y.addr = h_last.p /\ y.size > h_last.U.size

(***************************************************************************)
(* C20: an append (push_back or emplace_back) made when size() equals      *)
(* capacity() asks the handle for one allocation, of exactly 4 elements    *)
(* when the capacity is 0 and of 2 * capacity() elements otherwise.  The   *)
(* claim says max(4, 2 * capacity()), which differs at capacity 1.         *)
(***************************************************************************)
Appends == {"push_back", "emplace_back"}

AllocateRequests(log) == SelectSeq(log, LAMBDA e : e.ev = "allocate")

\* the claim as stated
C20_AsStatedStep ==
    (v_last'.op \in Appends /\ nStored = nAlloc) =>
        /\ Len(AllocateRequests(v_log')) = 1
        /\ AllocateRequests(v_log')[1].n = Max(4, 2 * nAlloc)

C20_AsStated == [][C20_AsStatedStep]_vars

\* amended: 4 elements from capacity 0, twice the capacity otherwise
C20_GrowthStep ==
    (v_last'.op \in Appends /\ nStored = nAlloc) =>
        /\ Len(AllocateRequests(v_log')) = 1
        /\ AllocateRequests(v_log')[1].n = (IF nAlloc = 0 THEN 4 ELSE 2 * nAlloc)
        /\ v_log'[1].ev = "allocate"

C20_Growth == [][C20_GrowthStep]_vars

\* an append on a full vector of capacity 1, which became a vector of capacity 2
C20_Witness ==
    /\ v_last.op \in Appends
    /\ v_last.cap = 1
    /\ v_last.size = 1
    /\ nAlloc = 2
    /\ nStored = 2
    /\ status = "alive"

(***************************************************************************)
(* C24: every deallocate call the arena makes on upstream carries the size *)
(* and the alignment of the upstream allocate call that produced the       *)
(* address, for whole blocks (returned by release and the destructor) and  *)
(* for standalone allocations (returned by deallocate).                    *)
(***************************************************************************)
\* the platform's record of the upstream allocate call that produced c.addr
ProducedBy(c, h) == {x \in h : x.addr = c.addr}

C24_MirrorStep ==
    \A i \in 1..Len(up_calls') :
        up_calls'[i].op = "deallocate" =>
            \E x \in ProducedBy(up_calls'[i], heap) :
                /\ x.size = up_calls'[i].size
                /\ x.align = up_calls'[i].align

C24_DeallocateMirrorsAllocate == [][C24_MirrorStep]_vars

(***************************************************************************)
(* C25: a deallocate that passes the bytes of the allocate that returned   *)
(* its address is forwarded to upstream exactly when the address was       *)
(* obtained through the standalone path, also after blocks were added and  *)
(* block_size has grown in between.                                        *)
(***************************************************************************)
\* the allocations the caller holds that p and bytes name
HeldAs(p, bytes, kind) ==
    {i \in 1..Len(handed) : Matches(handed[i], p, bytes) /\ handed[i].kind = kind}

ForwardsToUpstream(calls, p) ==
    \E i \in 1..Len(calls) : calls[i].op = "deallocate" /\ calls[i].addr = p

C25_ForwardStep ==
    (/\ last'.op = "deallocate"
     /\ HeldAs(last'.p, last'.bytes, "standalone")
            \cup HeldAs(last'.p, last'.bytes, "chained") # {}) =>
        (ForwardsToUpstream(up_calls', last'.p)
            <=> HeldAs(last'.p, last'.bytes, "standalone") # {})

C25_ForwardIffStandalone == [][C25_ForwardStep]_vars

(***************************************************************************)
(* C26: each new chained block has payload max(requested bytes,            *)
(* block_size of the moment), is asked of upstream as sizeof(block) +      *)
(* payload bytes at alignof(block), and doubles block_size; the k-th block *)
(* of an arena that served only small requests has payload                 *)
(* init_size * 2^(k-1).                                                    *)
(***************************************************************************)
C26_NewBlockStep ==
    (last'.op = "allocate" /\ Len(block_list') = Len(block_list) + 1) =>
        /\ block_list'[1].size = Max(last'.bytes, block_size)
        /\ up_calls' = <<UpCall("allocate", block_list'[1].b,
                                sizeof_block + block_list'[1].size, alignof_block)>>
        /\ block_size' = 2 * block_size
        /\ SubSeq(block_list', 2, Len(block_list')) = block_list

\* every call since construction was an allocate served from the chain
OnlySmallRequests ==
    /\ fresh_run
    /\ \A i \in 1..Len(handed) : handed[i].kind = "chained"

C26_Geometric ==
    OnlySmallRequests =>
        \A k \in 1..Len(block_list) :
            block_list[Len(block_list) - k + 1].size = init_size * Pow2(k - 1)

C26_BlockSizing == [][C26_NewBlockStep]_vars /\ []C26_Geometric

\* a second block was acquired by an arena that served only small requests
C26_Witness ==
    /\ OnlySmallRequests
    /\ status = "alive"
    /\ last.op = "allocate"
    /\ Len(up_calls) = 1
    /\ Len(block_list) = 2
    /\ block_list[1].size = 2 * init_size
    /\ block_size = 4 * init_size

(***************************************************************************)
(* C27: in every reachable state of the arena, whenever current is set,    *)
(* current_pos <= current->size, whatever the sizes and alignments asked,  *)
(* also when the padding of a request does not fit the current block.      *)
(***************************************************************************)
C27_OffsetWithinBlock ==
    current.b # nullptr => current_pos <= current.size

\* the bytes of the last allocate fitted the previous block at its offset, the
\* padding did not, and the request went to a new block
C27_Witness ==
    /\ status = "alive"
    /\ last.op = "allocate"
    /\ last.align > 1
    /\ Len(block_list) = 2
    /\ Len(up_calls) = 1
    /\ current = block_list[1]
    /\ \E i \in 1..Len(handed) :
          /\ handed[i].blk = block_list[2].b
          /\ (handed[i].addr + handed[i].bytes - block_list[2].ptr) + last.bytes
                <= block_list[2].size

(***************************************************************************)
(* C28: the byte ranges [addr, addr + bytes) returned from chained blocks  *)
(* since the last release are pairwise disjoint, and each lies within the  *)
(* payload [ptr, ptr + size) of exactly one block of block_list, touching  *)
(* no block header.                                                        *)
(***************************************************************************)
ChainedHeld == {i \in 1..Len(handed) : handed[i].kind = "chained"}

\* the blocks of block_list whose payload holds the range [a, a + n)
PayloadsHolding(a, n) ==
    {k \in 1..Len(block_list) :
        block_list[k].ptr <= a /\ a + n <= block_list[k].ptr + block_list[k].size}

C28_ChainedRangesDisjoint ==
    /\ \A i, j \in ChainedHeld :
          i # j => Disjoint(handed[i].addr, handed[i].bytes,
                            handed[j].addr, handed[j].bytes)
    /\ \A i \in ChainedHeld :
          /\ Cardinality(PayloadsHolding(handed[i].addr, handed[i].bytes)) = 1
          /\ \A k \in 1..Len(block_list) :
                Disjoint(handed[i].addr, handed[i].bytes, block_list[k].b, sizeof_block)

\* three allocates and nothing else: two ranges in the first block, one in the second
C28_Witness ==
    /\ fresh_run
    /\ status = "alive"
    /\ Len(handed) = 3
    /\ ChainedHeld = {1, 2, 3}
    /\ Len(block_list) = 2
    /\ handed[1].blk = handed[2].blk
    /\ handed[3].blk # handed[1].blk

(***************************************************************************)
(* C29: block_list holds the blocks acquired since the last release, the   *)
(* most recent at the head, each exactly once; current is null or the head *)
(* of block_list.                                                          *)
(***************************************************************************)
\* the blocks upstream handed over during the step
AcquiredBlocks == BlockEntries(heap') \ BlockEntries(heap)

C29_ListStep ==
    IF last'.op \in {"release", "destroy"} THEN block_list' = <<>>
    ELSE IF AcquiredBlocks = {} THEN block_list' = block_list
    ELSE /\ Cardinality(AcquiredBlocks) = 1
         /\ Len(block_list') = Len(block_list) + 1
         /\ SubSeq(block_list', 2, Len(block_list')) = block_list
         /\ \A x \in AcquiredBlocks :
               /\ block_list'[1].b = x.addr
               /\ block_list'[1].size = x.size - sizeof_block

C29_ListShape ==
    /\ \A i, j \in 1..Len(block_list) : i # j => block_list[i].b # block_list[j].b
    /\ {block_list[i].b : i \in 1..Len(block_list)} = {x.addr : x \in BlockEntries(heap)}
    /\ current.b = nullptr \/ (block_list # <<>> /\ current = block_list[1])

C29_BlockListOrder == [][C29_ListStep]_vars /\ []C29_ListShape

\* a second block was pushed in front of the first
C29_Witness ==
    /\ status = "alive"
    /\ last.op = "allocate"
    /\ Len(block_list) = 2
    /\ Len(up_calls) = 1
    /\ block_list[1].b = up_calls[1].addr
    /\ current = block_list[1]
    /\ block_list[1].size > block_list[2].size

(***************************************************************************)
(* C30: when a vector reallocates, the new buffer is allocated first, then *)
(* every element is move-constructed into it in index order, then the old  *)
(* elements are destroyed, and only then the old buffer is deallocated     *)
(* with the old capacity as its count: no old element is destroyed before  *)
(* every element has been moved.                                           *)
(***************************************************************************)
\* the positions in log of the events ev on the buffer p, elements below size
ElementSteps(log, ev, p, size) ==
    {j \in 1..Len(log) : log[j].ev = ev /\ log[j].p = p /\ log[j].i < size}

Reallocates(log) == AllocateRequests(log) # <<>>

C30_ReallocationStep ==
    (Reallocates(v_log') /\ status' = "alive") =>
        LET log == v_log'
            moves == ElementSteps(log, "construct", log[1].p, nStored)
            destroys == ElementSteps(log, "destroy", v_ptr, nStored)
        IN /\ log[1].ev = "allocate"
           /\ Cardinality(moves) = nStored
           /\ Cardinality(destroys) = nStored
           /\ \A m1, m2 \in moves : m1 < m2 => log[m1].i < log[m2].i
           /\ \A m \in moves, t \in destroys : m < t
           /\ \E d \in 1..Len(log) :
                 /\ log[d] = VEv("deallocate", v_ptr, nAlloc, 0)
                 /\ \A j \in moves \cup destroys : j < d

C30_MoveAllThenDestroy == [][C30_ReallocationStep]_vars

(***************************************************************************)
(* C21: N values appended one at a time to an empty vector over a fresh    *)
(* arena leave exactly those N values in the vector, in insertion order;   *)
(* the allocate requests made on the handle are for 4, 8, 16, ...          *)
(* elements, ending at the first capacity that is at least N; each         *)
(* superseded buffer gets exactly one deallocate request, of its own       *)
(* element count.                                                          *)
(***************************************************************************)
DeallocateRequests(log) == SelectSeq(log, LAMBDA e : e.ev = "deallocate")

\* the vector holds exactly the values appended, in insertion order
C21_Contents ==
    /\ nStored = Len(v_pushed)
    /\ Cardinality(v_mem) = nStored
    /\ \A i \in 1..nStored :
          \E c \in v_mem : c = Cell(ElementAddr(v_ptr, i - 1), v_pushed[i])

\* the allocate requests double from 4 and stop at the first capacity >= N
C21_Doubling ==
    LET A == AllocateRequests(v_reqs)
    IN /\ \A k \in 1..Len(A) : A[k].n = 4 * Pow2(k - 1)
       /\ nStored = 0 => A = <<>>
       /\ nStored > 0 =>
             /\ A # <<>>
             /\ A[Len(A)].n >= nStored
             /\ A[Len(A)].n = nAlloc
             /\ A[Len(A)].p = v_ptr
             /\ Len(A) > 1 => A[Len(A) - 1].n < nStored

\* the k-th deallocate request names the buffer the k-th allocate request
\* superseded, with that buffer's element count
C21_Superseded ==
    LET A == AllocateRequests(v_reqs)
        D == DeallocateRequests(v_reqs)
    IN /\ Len(D) = Len(A)
       /\ \A k \in 1..Len(D) :
             IF k = 1 THEN D[k].p = nullptr /\ D[k].n = 0
             ELSE D[k].p = A[k - 1].p /\ D[k].n = A[k - 1].n
       /\ \A j \in 1..Len(v_reqs) :
             v_reqs[j].ev = (IF j % 2 = 1 THEN "allocate" ELSE "deallocate")

C21_AppendsOnArena ==
    status = "alive" => C21_Contents /\ C21_Doubling /\ C21_Superseded

\* nine values, both kinds, in a vector that asked for 4, 8 and 16 elements,
\* all carved from one block of the arena
C21_Witness ==
    /\ status = "alive"
    /\ nStored = 9
    /\ Len(AllocateRequests(v_reqs)) = 3
    /\ nAlloc = 16
    /\ Len(block_list) = 1
    /\ \E i, j \in 1..Len(v_pushed) : v_pushed[i] # v_pushed[j]

(***************************************************************************)
(* C22: two tagged_ptr values over one type list compare equal exactly     *)
(* when they carry the same address and the same tag; a copy equals its    *)
(* source; tagged_ptrs made from two different live objects, of the same   *)
(* or of different listed types, are unequal; != is the negation of ==.    *)
(***************************************************************************)
C22_TaggedEquality ==
    LET a == tagged["my_shape"]
        b == tagged["my_shape2"]
    IN /\ tp_last.op = "compare" =>
             /\ tp_last.eq <=> (ptr(a) = ptr(b) /\ tag(a) = tag(b))
             /\ tp_last.ne <=> ~tp_last.eq
             /\ (a.from # NoObject /\ b.from # NoObject /\ a.from # b.from) => ~tp_last.eq
       /\ tp_last.op = "copy" => (tp_last.eq /\ ~tp_last.ne)

(***************************************************************************)
(* C23: a tagged_ptr<Ts...> built from a pointer p to the i-th listed type *)
(* T, p below 2^TAG_SHIFT, has tag() = i + 1 counting i from 0, ptr() = p, *)
(* cast<T>() = p, cast<U>() null for every other listed U, and call(func)  *)
(* invokes func exactly once, with p as a T*.                              *)
(***************************************************************************)
C23_TaggedObservers ==
    tp_last.op = "observe" =>
        LET x == tp_last.t.from
        IN /\ tp_last.tag = x.type
           /\ tp_last.ptr = x.addr
           /\ tp_last.casts[x.type] = x.addr
           /\ \A U \in ListedTypes : U # x.type => tp_last.casts[U] = nullptr
           /\ tp_last.calls = <<Object(x.addr, x.type)>>

(***************************************************************************)
(* C34: allocate(n) and deallocate(p, n) of a handle never pass the        *)
(* provider a byte count smaller than the product n * sizeof(Tp): the      *)
(* provider is asked for exactly n * sizeof(Tp) bytes, or the call fails   *)
(* before the provider is reached; the product is never reduced modulo     *)
(* 2^w of the size type.                                                   *)
(***************************************************************************)
C34_TypedStep ==
    h_last'.op \in {"allocate", "deallocate"} =>
        LET Tp == h_last'.U
            n == h_last'.n
        IN \/ /\ h_last'.threw # "none"
              /\ h_log' = <<>>
              /\ heap' = heap
           \/ /\ Len(h_log') = 1
              /\ h_log'[1].ev = h_last'.op
              /\ h_log'[1].bytes = n * Tp.size

C34_ProductNotReduced == [][C34_TypedStep]_vars

(***************************************************************************)
(* C31: after any sequence of vector constructors (the copy constructors   *)
(* included) and operations, size() <= capacity(), and capacity() is the   *)
(* element count of the buffer the vector holds from its provider, 0       *)
(* exactly when the buffer pointer is null; so an append with              *)
(* size() < capacity() never writes outside the allocated buffer.          *)
(***************************************************************************)
Running_(v) == status = "alive" /\ Alive(v)

\* the buffer at p is allocated and was allocated with n elements
HoldsBuffer(p, n) ==
    /\ p \in 1..Len(buffers)
    /\ buffers[p].frees = <<>>
    /\ buffers[p].n = n

C31_Capacity ==
    \A v \in VecNames :
        Running_(v) =>
            /\ vectors[v].nStored <= vectors[v].nAlloc
            /\ (vectors[v].nAlloc = 0) <=> (vectors[v].ptr = nullptr)
            /\ vectors[v].ptr # nullptr => HoldsBuffer(vectors[v].ptr, vectors[v].nAlloc)

C31_AppendStep ==
    (/\ vo_last'.op \in {"push_back", "emplace_back"}
     /\ vectors[vo_last'.v].nStored < vectors[vo_last'.v].nAlloc) =>
        "outside" \notin vo_last'.misuse

C31_CapacityIsBufferCount == [][C31_AppendStep]_vars /\ []C31_Capacity

(***************************************************************************)
(* C32: every buffer a vector obtains is deallocated exactly once, through *)
(* a handle that refers to the provider it was allocated from and with the *)
(* element count it was allocated with, over any sequence of operations,   *)
(* move construction with a supplied allocator, move assignment, swap,     *)
(* resize(0) and destruction included.                                     *)
(***************************************************************************)
\* no vector object is left: each was destroyed or never constructed
AllGone == \A v \in VecNames : vectors[v].state # "alive"

C32_BuffersReturnedOnce ==
    status = "alive" =>
        \A p \in 1..Len(buffers) :
            /\ Len(buffers[p].frees) <= 1
            /\ \A k \in 1..Len(buffers[p].frees) :
                  /\ buffers[p].frees[k].r = buffers[p].r
                  /\ buffers[p].frees[k].n = buffers[p].n
            /\ AllGone => Len(buffers[p].frees) = 1

(***************************************************************************)
(* C33: after any sequence of vector operations, exactly the slots with    *)
(* index < size() hold a constructed element and every slot with index     *)
(* >= size() is unconstructed: no slot is constructed twice without a      *)
(* destroy in between, no unconstructed slot is destroyed or assigned to,  *)
(* and after a resize(count, value) that grows the vector every new index  *)
(* in [old size, count) holds value.                                       *)
(***************************************************************************)
\* the slot i of the vector v holds an element
Holds(v, i) ==
    /\ vectors[v].ptr \in 1..Len(buffers)
    /\ i \in DOMAIN buffers[vectors[v].ptr].cells
    /\ buffers[vectors[v].ptr].cells[i] # raw

SlotsOf(v) ==
    IF vectors[v].ptr \in 1..Len(buffers)
    THEN DOMAIN buffers[vectors[v].ptr].cells
    ELSE {}

C33_Slots ==
    \A v \in VecNames :
        Running_(v) =>
            /\ \A i \in 0..(vectors[v].nStored - 1) : Holds(v, i)
            /\ \A i \in SlotsOf(v) : i >= vectors[v].nStored => ~Holds(v, i)

C33_LifetimeStep ==
    vo_last'.misuse \cap {"constructed_twice", "destroyed_raw", "assigned_raw"} = {}

C33_ResizeValueStep ==
    (/\ vo_last'.op = "resize_value"
     /\ status' = "alive"
     /\ vo_last'.count > vo_last'.size) =>
        \A v \in {vo_last'.v}, i \in vo_last'.size..(vo_last'.count - 1) :
            /\ Holds(v, i)'
            /\ buffers'[vectors'[v].ptr].cells[i] = vo_last'.value

C33_SlotsConstructedBelowSize ==
    [][C33_LifetimeStep /\ C33_ResizeValueStep]_vars /\ []C33_Slots

====
